---- MODULE Spec2Model ----
(***************************************************************************)
(* Model of unvariance/collector.                                          *)
(*                                                                         *)
(*  - the resctrl NRI plugin (crates/nri-resctrl-plugin/src/lib.rs): the   *)
(*    pods/containers maps behind one mutex, the lifecycle callbacks, the  *)
(*    retry operations, and the bounded outbound event channel;            *)
(*  - the timeslot pipeline of the collector (crates/collector/src/main.rs)*)
(*    : the task table, the current timeslot, the bounded timeslot channel.*)
(*                                                                         *)
(* Every critical section of the plugin's state mutex is one action: the   *)
(* code never blocks while it holds the mutex, so "the mutex is free" is   *)
(* every state of the model.  An operation that releases the mutex for     *)
(* filesystem work stays in the bag `inflight` between its sections.       *)
(***************************************************************************)
EXTENDS Naturals, Integers, Sequences, FiniteSets, Bags, TLC

(***************************************************************************)
(* Bounds of the model.                                                    *)
(***************************************************************************)
\* operations that have released the mutex and not yet finished
MaxInFlight == 2
\* cap of total_containers / reconciled_containers (usize in the code)
MaxCount == 2
\* capacity of the PodResctrlEvent channel (chosen by the caller of new())
EvChanCap == 1
\* cap of the dropped_events counter (AtomicUsize in the code)
MaxDropped == 1

\* pod uids and container ids the runtime may name; the runtime fixes the
\* pod of a container (CreateContainerRequest carries both)
PodUids == {"u1"}
ContainerIds == {"c1", "c2"}
\* the pods of the retry_all_once runs
RaPodUids == {"u1", "u2"}
PodOf(c) == "u1"

VARIABLES
    pods,            \* InnerState.pods: pod uid -> PodState
    containers,      \* InnerState.containers: container id -> ContainerState
    groups,          \* resctrl tree: the group directories that exist
    inflight,        \* bag of operations between two critical sections
    chanLen,         \* events queued in the mpsc channel behind `tx`
    dropped_events,  \* ResctrlPlugin.dropped_events
    out,             \* the event the last step handed to emit_event, and by which operation
    lastEv           \* per pod uid, the last event handed to emit_event

pluginVars == <<pods, containers, groups, inflight, chanLen, dropped_events,
                out, lastEv>>

(***************************************************************************)
(* Data                                                                    *)
(***************************************************************************)
Failed == [tag |-> "Failed"]
Exists(path) == [tag |-> "Exists", path |-> path]

\* Resctrl::create_group computes the group path from the pod uid
GroupPath(u) == <<"pod_", u>>

NoEvent == [kind |-> "none"]
NoOutput == [by |-> "none", ev |-> NoEvent, sent |-> FALSE]
Removed(u) == [kind |-> "Removed", pod_uid |-> u]

emit_pod_add_or_update_stale(u, ps) ==
    [kind |-> "AddOrUpdate", pod_uid |-> u, group_state |-> ps.group_state,
     total_containers |-> 0, reconciled_containers |-> 0]

emit_pod_add_or_update(u, ps) ==
    [kind |-> "AddOrUpdate", pod_uid |-> u, group_state |-> ps.group_state,
     total_containers |-> ps.total_containers,
     reconciled_containers |-> ps.reconciled_containers]

\* outcomes of Resctrl::create_group and Resctrl::reconcile_group
CreateOutcomes == {"ok", "capacity", "io"}
ReconcileOutcomes == {"ok0", "missing", "err"}

Tracked(u) == u \in DOMAIN pods
Known(c) == c \in DOMAIN containers

MapPut(m, k, v) == [x \in DOMAIN m \cup {k} |-> IF x = k THEN v ELSE m[x]]
MapRemove(m, k) == [x \in DOMAIN m \ {k} |-> m[x]]

Task(op, pc, u, c) == [op |-> op, pc |-> pc, uid |-> u, cid |-> c]
HncTask(u, c) == Task("hnc", "reconcile", u, c)
InFlight(t) == BagIn(t, inflight)
CanStart == BagCardinality(inflight) < MaxInFlight
Start(t) == inflight' = inflight (+) SetToBag({t})
Finish(t) == inflight' = inflight (-) SetToBag({t})
Move(t, t2) == inflight' = (inflight (-) SetToBag({t})) (+) SetToBag({t2})

(***************************************************************************)
(* emit_event: try_send, and count the event as dropped when it fails      *)
(***************************************************************************)
emit_event_uncounted(ev) ==
    /\ IF chanLen < EvChanCap
       THEN chanLen' = chanLen + 1
       ELSE chanLen' = chanLen
    /\ dropped_events' = dropped_events
    /\ lastEv' = [lastEv EXCEPT ![ev.pod_uid] = ev]

emit_event(ev) ==
    /\ IF chanLen < EvChanCap
       THEN chanLen' = chanLen + 1 /\ dropped_events' = dropped_events
       ELSE /\ dropped_events < MaxDropped
            /\ dropped_events' = dropped_events + 1
            /\ chanLen' = chanLen
    /\ lastEv' = [lastEv EXCEPT ![ev.pod_uid] = ev]

\* a step that hands `ev` to emit_event; `by` is the operation
Emit(by, ev) ==
    /\ emit_event(ev)
    /\ out' = [by |-> by, ev |-> ev, sent |-> chanLen < EvChanCap]

\* a step that emits nothing
NoEmit ==
    /\ UNCHANGED <<chanLen, dropped_events, lastEv>>
    /\ out' = NoOutput

(***************************************************************************)
(* handle_new_pod (RUN_POD_SANDBOX): the whole function holds the mutex    *)
(***************************************************************************)
PodsAfterNewPod_retries(u, o) ==
    IF Tracked(u)
    THEN IF pods[u].group_state = Failed /\ o = "ok"
         THEN [pods EXCEPT ![u].group_state = Exists(GroupPath(u))]
         ELSE pods
    ELSE MapPut(pods, u,
                [group_state |-> IF o = "ok" THEN Exists(GroupPath(u)) ELSE Failed,
                 total_containers |-> 0, reconciled_containers |-> 0])

PodsAfterNewPod_resets(u, o) ==
    MapPut(pods, u,
           [group_state |-> IF o = "ok" THEN Exists(GroupPath(u)) ELSE Failed,
            total_containers |-> 0, reconciled_containers |-> 0])

PodsAfterNewPod_recounts(u, o) ==
    IF Tracked(u)
    THEN [pods EXCEPT ![u].total_containers = 0, ![u].reconciled_containers = 0]
    ELSE MapPut(pods, u,
                [group_state |-> IF o = "ok" THEN Exists(GroupPath(u)) ELSE Failed,
                 total_containers |-> 0, reconciled_containers |-> 0])

PodsAfterNewPod(u, o) ==
    IF Tracked(u) THEN pods
    ELSE MapPut(pods, u,
                [group_state |-> IF o = "ok" THEN Exists(GroupPath(u)) ELSE Failed,
                 total_containers |-> 0, reconciled_containers |-> 0])

handle_new_pod(u) ==
    /\ \E o \in CreateOutcomes :
         /\ pods' = PodsAfterNewPod(u, o)
         /\ groups' = IF ~Tracked(u) /\ o = "ok" THEN groups \cup {GroupPath(u)}
                      ELSE groups
    /\ Emit("handle_new_pod", emit_pod_add_or_update(u, pods'[u]))
    /\ UNCHANGED <<containers, inflight>>

(***************************************************************************)
(* handle_new_container (create_container)                                 *)
(***************************************************************************)
hnc_begin_reprocesses(c) ==
    LET u == PodOf(c) IN
    \/ /\ Known(c) /\ ~(Tracked(u) /\ pods[u].group_state # Failed)
       /\ NoEmit
       /\ UNCHANGED <<pods, containers, groups, inflight>>
    \/ /\ Known(c) /\ Tracked(u) /\ pods[u].group_state # Failed
       /\ CanStart
       /\ Start(Task("hnc", "reconcile", u, c))
       /\ NoEmit
       /\ UNCHANGED <<pods, containers, groups>>
    \/ /\ ~Known(c) /\ ~Tracked(u)
       /\ containers' = MapPut(containers, c, [pod_uid |-> u, state |-> "NoPod"])
       /\ NoEmit
       /\ UNCHANGED <<pods, groups, inflight>>
    \/ /\ ~Known(c) /\ Tracked(u) /\ pods[u].group_state = Failed
       /\ pods[u].total_containers < MaxCount
       /\ containers' = MapPut(containers, c, [pod_uid |-> u, state |-> "Partial"])
       /\ pods' = [pods EXCEPT ![u].total_containers = @ + 1]
       /\ Emit("handle_new_container", emit_pod_add_or_update(u, pods'[u]))
       /\ UNCHANGED <<groups, inflight>>
    \/ /\ ~Known(c) /\ Tracked(u) /\ pods[u].group_state # Failed
       /\ CanStart
       /\ Start(Task("hnc", "reconcile", u, c))
       /\ NoEmit
       /\ UNCHANGED <<pods, containers, groups>>

\* first critical section
hnc_begin(c) ==
    LET u == PodOf(c) IN
    \/ /\ Known(c)
       /\ NoEmit
       /\ UNCHANGED <<pods, containers, groups, inflight>>
    \/ /\ ~Known(c) /\ ~Tracked(u)
       /\ containers' = MapPut(containers, c, [pod_uid |-> u, state |-> "NoPod"])
       /\ NoEmit
       /\ UNCHANGED <<pods, groups, inflight>>
    \/ /\ ~Known(c) /\ Tracked(u) /\ pods[u].group_state = Failed
       /\ pods[u].total_containers < MaxCount
       /\ containers' = MapPut(containers, c, [pod_uid |-> u, state |-> "Partial"])
       /\ pods' = [pods EXCEPT ![u].total_containers = @ + 1]
       /\ Emit("handle_new_container", emit_pod_add_or_update(u, pods'[u]))
       /\ UNCHANGED <<groups, inflight>>
    \/ /\ ~Known(c) /\ Tracked(u) /\ pods[u].group_state # Failed
       /\ CanStart
       /\ Start(Task("hnc", "reconcile", u, c))
       /\ NoEmit
       /\ UNCHANGED <<pods, containers, groups>>

\* reconcile_group outside the mutex, then the second critical section
hnc_commit(c) ==
    LET u == PodOf(c)
        t == Task("hnc", "reconcile", u, c) IN
    /\ InFlight(t)
    /\ \E res \in ReconcileOutcomes :
         LET new_state == IF res = "ok0" THEN "Reconciled" ELSE "Partial" IN
         /\ containers' = MapPut(containers, c, [pod_uid |-> u, state |-> new_state])
         /\ IF Tracked(u)
            THEN /\ pods[u].total_containers < MaxCount
                 /\ new_state = "Reconciled" => pods[u].reconciled_containers < MaxCount
                 /\ pods' = [pods EXCEPT
                       ![u].total_containers = @ + 1,
                       ![u].reconciled_containers =
                           IF new_state = "Reconciled" THEN @ + 1 ELSE @]
                 /\ Emit("handle_new_container",
                         emit_pod_add_or_update(u, pods'[u]))
            ELSE /\ pods' = pods
                 /\ NoEmit
    /\ Finish(t)
    /\ UNCHANGED groups

(***************************************************************************)
(* state_change(REMOVE_POD_SANDBOX)                                        *)
(***************************************************************************)
ContainersAfterRemovePod_keeps_nopod(u) ==
    [c \in {x \in DOMAIN containers :
                containers[x].pod_uid # u \/ containers[x].state = "NoPod"}
        |-> containers[c]]

\* st.containers.retain(|_, c| c.pod_uid != pod_uid)
ContainersAfterRemovePod(u) ==
    [c \in {x \in DOMAIN containers : containers[x].pod_uid # u} |-> containers[c]]

\* st.pods.remove(&pod_uid)
PodsAfterRemovePod_keeps(u) == pods

PodsAfterRemovePod(u) == MapRemove(pods, u)

remove_pod_sandbox(u) ==
    LET has_group == Tracked(u) /\ pods[u].group_state # Failed IN
    /\ containers' = ContainersAfterRemovePod(u)
    /\ pods' = PodsAfterRemovePod(u)
    /\ Emit("remove_pod_sandbox", Removed(u))
    /\ IF has_group
       THEN CanStart /\ Start(Task("rmpod", "delete", u, ""))
       ELSE UNCHANGED inflight
    /\ UNCHANGED groups

\* delete_group after the mutex is released; deleted_ok is its result, an
\* error is logged and nothing else
remove_pod_delete_with(u, deleted_ok) ==
    LET t == Task("rmpod", "delete", u, "") IN
    /\ InFlight(t)
    /\ groups' = IF deleted_ok THEN groups \ {GroupPath(u)} ELSE groups
    /\ Finish(t)
    /\ NoEmit
    /\ UNCHANGED <<pods, containers>>

remove_pod_delete(u) == \E deleted_ok \in BOOLEAN : remove_pod_delete_with(u, deleted_ok)

(***************************************************************************)
(* state_change(REMOVE_CONTAINER)                                          *)
(***************************************************************************)
SatSub1(n) == IF n = 0 THEN 0 ELSE n - 1

remove_container_counts_nopod(c) ==
    LET u == PodOf(c)
        old_state == IF Known(c) THEN containers[c].state ELSE "None" IN
    /\ containers' = MapRemove(containers, c)
    /\ IF Tracked(u)
       THEN /\ pods' = [pods EXCEPT
                  ![u].total_containers =
                      IF old_state # "None" THEN SatSub1(@) ELSE @,
                  ![u].reconciled_containers =
                      IF old_state = "Reconciled" THEN SatSub1(@) ELSE @]
            /\ Emit("remove_container", emit_pod_add_or_update(u, pods'[u]))
       ELSE /\ pods' = pods
            /\ NoEmit
    /\ UNCHANGED <<groups, inflight>>

remove_container(c) ==
    LET u == PodOf(c)
        old_state == IF Known(c) THEN containers[c].state ELSE "None" IN
    /\ containers' = MapRemove(containers, c)
    /\ IF Tracked(u)
       THEN /\ pods' = [pods EXCEPT
                  ![u].total_containers =
                      IF old_state \in {"Partial", "Reconciled"} THEN SatSub1(@) ELSE @,
                  ![u].reconciled_containers =
                      IF old_state = "Reconciled" THEN SatSub1(@) ELSE @]
            /\ Emit("remove_container", emit_pod_add_or_update(u, pods'[u]))
       ELSE /\ pods' = pods
            /\ NoEmit
    /\ UNCHANGED <<groups, inflight>>

\* update_container: logs the request and returns the default response
update_container(c) ==
    /\ NoEmit
    /\ UNCHANGED <<pods, containers, groups, inflight>>

(***************************************************************************)
(* retry_group_creation                                                    *)
(***************************************************************************)
rgc_begin(u) ==
    \/ /\ ~Tracked(u)
       /\ NoEmit
       /\ UNCHANGED <<pods, containers, groups, inflight>>
    \/ /\ Tracked(u) /\ pods[u].group_state # Failed
       /\ NoEmit
       /\ UNCHANGED <<pods, containers, groups, inflight>>
    \/ /\ Tracked(u) /\ pods[u].group_state = Failed
       /\ CanStart
       /\ Start(Task("rgc", "create", u, ""))
       /\ NoEmit
       /\ UNCHANGED <<pods, containers, groups>>

\* create_group outside the mutex, returning outcome o
rgc_create_with(u, o) ==
    LET t == Task("rgc", "create", u, "") IN
    /\ InFlight(t)
    /\ IF o = "ok"
       THEN /\ groups' = groups \cup {GroupPath(u)}
            /\ Move(t, Task("rgc", "commit", u, ""))
            /\ NoEmit
       ELSE /\ groups' = groups
            /\ Finish(t)
            /\ NoEmit
    /\ UNCHANGED <<pods, containers>>

rgc_create(u) == \E o \in CreateOutcomes : rgc_create_with(u, o)

rgc_commit_leaks(u) ==
    LET t == Task("rgc", "commit", u, "") IN
    /\ InFlight(t)
    /\ \/ /\ Tracked(u) /\ pods[u].group_state = Failed
          /\ pods' = [pods EXCEPT ![u].group_state = Exists(GroupPath(u))]
          /\ Emit("retry_group_creation", emit_pod_add_or_update(u, pods'[u]))
          /\ Finish(t)
       \/ /\ Tracked(u) /\ pods[u].group_state # Failed
          /\ pods' = pods
          /\ NoEmit
          /\ Finish(t)
       \/ /\ ~Tracked(u)
          /\ pods' = pods
          /\ NoEmit
          /\ Finish(t)
    /\ UNCHANGED <<containers, groups>>

\* the mutex retaken after create_group returned Ok(path)
rgc_commit(u) ==
    LET t == Task("rgc", "commit", u, "") IN
    /\ InFlight(t)
    /\ \/ /\ Tracked(u) /\ pods[u].group_state = Failed
          /\ pods' = [pods EXCEPT ![u].group_state = Exists(GroupPath(u))]
          /\ Emit("retry_group_creation", emit_pod_add_or_update(u, pods'[u]))
          /\ Finish(t)
       \/ /\ Tracked(u) /\ pods[u].group_state # Failed
          /\ pods' = pods
          /\ NoEmit
          /\ Finish(t)
       \/ /\ ~Tracked(u)
          /\ pods' = pods
          /\ NoEmit
          /\ Move(t, Task("rgc", "cleanup", u, ""))
    /\ UNCHANGED <<containers, groups>>

\* best-effort delete_group for a pod that disappeared
rgc_cleanup(u) ==
    LET t == Task("rgc", "cleanup", u, "") IN
    /\ InFlight(t)
    /\ groups' = groups \ {GroupPath(u)}
    /\ Finish(t)
    /\ NoEmit
    /\ UNCHANGED <<pods, containers>>

(***************************************************************************)
(* retry_container_reconcile                                               *)
(***************************************************************************)
rcr_begin(c) ==
    \/ /\ ~Known(c)
       /\ NoEmit
       /\ UNCHANGED <<pods, containers, groups, inflight>>
    \/ /\ Known(c) /\ containers[c].state = "NoPod"
       /\ NoEmit
       /\ UNCHANGED <<pods, containers, groups, inflight>>
    \/ /\ Known(c) /\ containers[c].state # "NoPod"
       /\ ~Tracked(containers[c].pod_uid)
       /\ NoEmit
       /\ UNCHANGED <<pods, containers, groups, inflight>>
    \/ /\ Known(c) /\ containers[c].state # "NoPod"
       /\ Tracked(containers[c].pod_uid)
       /\ pods[containers[c].pod_uid].group_state = Failed
       /\ NoEmit
       /\ UNCHANGED <<pods, containers, groups, inflight>>
    \/ /\ Known(c) /\ containers[c].state # "NoPod"
       /\ Tracked(containers[c].pod_uid)
       /\ pods[containers[c].pod_uid].group_state # Failed
       /\ CanStart
       /\ Start(Task("rcr", "reconcile", containers[c].pod_uid, c))
       /\ NoEmit
       /\ UNCHANGED <<pods, containers, groups>>

rcr_commit_with_recounts(c, u, res) ==
    LET t == Task("rcr", "reconcile", u, c) IN
    /\ InFlight(t)
    /\ Finish(t)
    /\ UNCHANGED groups
    /\ IF res = "ok0" /\ Known(c) /\ Tracked(u)
       THEN /\ pods[u].reconciled_containers < MaxCount
            /\ containers' = [containers EXCEPT ![c].state = "Reconciled"]
            /\ pods' = [pods EXCEPT ![u].reconciled_containers = @ + 1]
            /\ Emit("retry_container_reconcile",
                    emit_pod_add_or_update(u, pods'[u]))
       ELSE /\ NoEmit
            /\ UNCHANGED <<pods, containers>>

rcr_commit_with_regresses(c, u, res) ==
    LET t == Task("rcr", "reconcile", u, c) IN
    /\ InFlight(t)
    /\ Finish(t)
    /\ UNCHANGED groups
    /\ IF res = "err"
       THEN /\ NoEmit
            /\ UNCHANGED <<pods, containers>>
       ELSE IF ~Known(c)
       THEN /\ NoEmit
            /\ UNCHANGED <<pods, containers>>
       ELSE IF ~Tracked(u)
       THEN /\ NoEmit
            /\ UNCHANGED <<pods, containers>>
       ELSE IF containers[c].state = "Partial" /\ res = "ok0"
       THEN /\ pods[u].reconciled_containers < MaxCount
            /\ containers' = [containers EXCEPT ![c].state = "Reconciled"]
            /\ pods' = [pods EXCEPT ![u].reconciled_containers = @ + 1]
            /\ Emit("retry_container_reconcile",
                    emit_pod_add_or_update(u, pods'[u]))
       ELSE /\ containers' = [containers EXCEPT ![c].state =
                                 IF res = "ok0" THEN "Reconciled" ELSE "Partial"]
            /\ pods' = pods
            /\ NoEmit

\* reconcile_group outside the mutex returned res; the second critical
\* section of the call that snapshotted pod u
rcr_commit_with(c, u, res) ==
    LET t == Task("rcr", "reconcile", u, c) IN
    /\ InFlight(t)
    /\ Finish(t)
    /\ UNCHANGED groups
    /\ IF res = "err"
       THEN /\ NoEmit
            /\ UNCHANGED <<pods, containers>>
       ELSE IF ~Known(c)
       THEN /\ NoEmit
            /\ UNCHANGED <<pods, containers>>
       ELSE IF ~Tracked(u)
       THEN /\ NoEmit
            /\ UNCHANGED <<pods, containers>>
       ELSE IF containers[c].state = "Partial" /\ res = "ok0"
       THEN /\ pods[u].reconciled_containers < MaxCount
            /\ containers' = [containers EXCEPT ![c].state = "Reconciled"]
            /\ pods' = [pods EXCEPT ![u].reconciled_containers = @ + 1]
            /\ Emit("retry_container_reconcile",
                    emit_pod_add_or_update(u, pods'[u]))
       ELSE /\ NoEmit
            /\ UNCHANGED <<pods, containers>>

rcr_commit(c) ==
    \E u \in PodUids, res \in ReconcileOutcomes : rcr_commit_with(c, u, res)

(***************************************************************************)
(* The values the retry operations return.  Continue stands for "no return *)
(* yet": the call goes on to its next phase.                               *)
(***************************************************************************)
Ok(x) == <<"Ok", x>>
Err(x) == <<"Err", x>>
Continue == <<"Continue", "">>

\* retry_group_creation: the snapshot under the lock
rgc_begin_result(u) ==
    IF ~Tracked(u) THEN Err("PodNotFound")
    ELSE IF pods[u].group_state # Failed THEN Ok("Exists")
    ELSE Continue

\* retry_group_creation: create_group returned outcome o
rgc_create_result(o) ==
    IF o = "ok" THEN Continue
    ELSE IF o = "capacity" THEN Err("Capacity")
    ELSE Err("Io")

\* retry_group_creation: the re-check under the lock; an absent pod leads to
\* the cleanup, which returns rgc_cleanup_result
rgc_commit_result(u) == IF Tracked(u) THEN Ok("Exists") ELSE Continue
rgc_cleanup_result == Err("PodNotFound")

\* retry_container_reconcile: the snapshot under the lock
rcr_begin_result(c) ==
    IF ~Known(c) THEN Err("ContainerNotFound")
    ELSE IF containers[c].state = "NoPod" THEN Ok("NoPod")
    ELSE IF ~Tracked(containers[c].pod_uid) THEN Err("PodNotFound")
    ELSE IF pods[containers[c].pod_uid].group_state = Failed
         THEN Ok(containers[c].state)
    ELSE Continue

\* retry_container_reconcile: reconcile_group returned res, lock retaken
rcr_commit_result(c, u, res) ==
    IF res = "err" THEN Err("Resctrl")
    ELSE IF ~Known(c) THEN Err("ContainerNotFound")
    ELSE IF ~Tracked(u) THEN Err("PodNotFound")
    ELSE IF containers[c].state = "Partial" /\ res = "ok0" THEN Ok("Reconciled")
    ELSE Ok(containers[c].state)

(***************************************************************************)
(* synchronize, startup part: ensure_mounted, then cleanup_all when it is  *)
(* configured and the mount succeeded.  cleanup_all removes every          *)
(* directory with the group prefix, which is every directory of `groups`.  *)
(* The rest of synchronize is one handle_new_pod per pod and one           *)
(* handle_new_container per container of the request: the steps            *)
(* RunPodSandbox, CreateContainer and CreateContainerCommit below.         *)
(***************************************************************************)
cleanup_on_start == TRUE

\* ensure_mounted returned mounted_ok, cleanup_all returned Ok iff cleanup_ok
synchronize_startup_with(mounted_ok, cleanup_ok) ==
    /\ groups' = IF cleanup_on_start /\ mounted_ok /\ cleanup_ok THEN {} ELSE groups
    /\ NoEmit
    /\ UNCHANGED <<pods, containers, inflight>>

synchronize_startup ==
    \E mounted_ok \in BOOLEAN, cleanup_ok \in BOOLEAN :
        synchronize_startup_with(mounted_ok, cleanup_ok)

(***************************************************************************)
(* The subscriber takes one event from the channel                         *)
(***************************************************************************)
event_recv ==
    /\ chanLen > 0
    /\ chanLen' = chanLen - 1
    /\ out' = NoOutput
    /\ UNCHANGED <<pods, containers, groups, inflight, dropped_events, lastEv>>

(***************************************************************************)
(* The timeslot pipeline of the collector (crates/collector/src/main.rs).  *)
(* All handlers run on the BPF polling thread, one message at a time.      *)
(***************************************************************************)
\* the latest timeslot value the sync timer emits
MaxTs == 3
\* capacity of the timeslot channel
TsChanCap == 1
\* cap of a summed counter of a timeslot entry (u64 in the code)
MaxCycles == 2
\* cap of error_counter (u64 in the code)
MaxErrors == 2

Pids == {42}
Comms == {"a", "b"}
CyclesDeltas == {1}

VARIABLES
    task_collection,   \* PerfEventProcessor.task_collection
    current_timeslot,  \* PerfEventProcessor.current_timeslot
    tsChan,            \* the bounded channel to the writer task
    error_counter,     \* failed try_sends since the last report
    lastMsg,           \* the message the last step processed, and what it did
    seenMeta           \* per pid, the TASK_METADATA of the running timeslot

collectorVars == <<task_collection, current_timeslot, tsChan, error_counter,
                   lastMsg, seenMeta>>

None == [none |-> TRUE]

\* TaskMetadata::new(pid, comm, cgroup_id); the cgroup id goes with the comm
TaskMetadata(pid, comm) == [pid |-> pid, comm |-> comm,
                            cgroup_id |-> IF comm = "a" THEN 9 ELSE 7]

\* TaskCollection: a pid -> TaskMetadata mapping and a pending-removal set
TaskCollectionNew == [tasks |-> <<>>, pending |-> {}]
tc_add(tc, meta) == [tc EXCEPT !.tasks = MapPut(@, meta.pid, meta)]
tc_lookup(tc, pid) == IF pid \in DOMAIN tc.tasks THEN tc.tasks[pid] ELSE None
tc_queue_removal(tc, pid) == [tc EXCEPT !.pending = @ \cup {pid}]
tc_flush_removals(tc) ==
    [tasks |-> [p \in DOMAIN tc.tasks \ tc.pending |-> tc.tasks[p]],
     pending |-> {}]

\* TimeslotData: the timestamp and one entry per pid
TimeslotDataNew(ts) == [timestamp |-> ts, entries |-> <<>>]
td_update_first_writer(td, pid, metadata, cycles) ==
    IF pid \in DOMAIN td.entries
    THEN [td EXCEPT !.entries[pid] =
            [metadata |-> @.metadata, cycles |-> @.cycles + cycles]]
    ELSE [td EXCEPT !.entries =
            MapPut(@, pid, [metadata |-> metadata, cycles |-> cycles])]

td_update(td, pid, metadata, cycles) ==
    IF pid \in DOMAIN td.entries
    THEN [td EXCEPT !.entries[pid] =
            [metadata |-> IF metadata # None THEN metadata ELSE @.metadata,
             cycles |-> @.cycles + cycles]]
    ELSE [td EXCEPT !.entries =
            MapPut(@, pid, [metadata |-> metadata, cycles |-> cycles])]

\* a record that plain::from_bytes rejects changes nothing
malformed_message ==
    /\ lastMsg' = [type |-> "malformed"]
    /\ UNCHANGED <<task_collection, current_timeslot, tsChan, error_counter,
                   seenMeta>>

handle_task_metadata(pid, comm) ==
    /\ task_collection' = tc_add(task_collection, TaskMetadata(pid, comm))
    /\ seenMeta' = [seenMeta EXCEPT ![pid] = TaskMetadata(pid, comm)]
    /\ lastMsg' = [type |-> "TASK_METADATA", pid |-> pid]
    /\ UNCHANGED <<current_timeslot, tsChan, error_counter>>

handle_task_free_immediate(pid) ==
    /\ task_collection' = [task_collection EXCEPT !.tasks = MapRemove(@, pid)]
    /\ lastMsg' = [type |-> "TASK_FREE", pid |-> pid]
    /\ UNCHANGED <<current_timeslot, tsChan, error_counter, seenMeta>>

handle_task_free(pid) ==
    /\ task_collection' = tc_queue_removal(task_collection, pid)
    /\ lastMsg' = [type |-> "TASK_FREE", pid |-> pid]
    /\ UNCHANGED <<current_timeslot, tsChan, error_counter, seenMeta>>

handle_perf_measurement(pid, cycles) ==
    LET metadata == tc_lookup(task_collection, pid) IN
    /\ pid \in DOMAIN current_timeslot.entries
         => current_timeslot.entries[pid].cycles + cycles <= MaxCycles
    /\ current_timeslot' = td_update(current_timeslot, pid, metadata, cycles)
    /\ lastMsg' = [type |-> "PERF_MEASUREMENT", pid |-> pid, metadata |-> metadata]
    /\ UNCHANGED <<task_collection, tsChan, error_counter, seenMeta>>

timeslot_callback_blocking(timeslot, report_due) ==
    /\ ~report_due
    /\ Len(tsChan) < TsChanCap
    /\ tsChan' = Append(tsChan, timeslot)
    /\ error_counter' = error_counter

\* the completion callback built in main(): try_send, count a failure, and
\* report (and reset) the count when a second has passed since the last report
timeslot_callback(timeslot, report_due) ==
    IF Len(tsChan) < TsChanCap
    THEN /\ ~report_due
         /\ tsChan' = Append(tsChan, timeslot)
         /\ error_counter' = error_counter
    ELSE /\ tsChan' = tsChan
         /\ IF report_due
            THEN error_counter' = 0
            ELSE error_counter < MaxErrors /\ error_counter' = error_counter + 1

handle_new_timeslot_keeps(old_timeslot, new_timeslot, report_due) ==
    LET completed_timeslot == current_timeslot IN
    /\ current_timeslot' = [current_timeslot EXCEPT !.timestamp = new_timeslot]
    /\ timeslot_callback(completed_timeslot, report_due)
    /\ lastMsg' = [type |-> "TIMESLOT", old |-> old_timeslot, new |-> new_timeslot,
                   completed |-> completed_timeslot,
                   reported |-> IF Len(tsChan) >= TsChanCap /\ report_due
                                THEN error_counter + 1 ELSE 0]

handle_new_timeslot(old_timeslot, new_timeslot, report_due) ==
    LET completed_timeslot == current_timeslot IN
    /\ current_timeslot' = TimeslotDataNew(new_timeslot)
    /\ timeslot_callback(completed_timeslot, report_due)
    /\ lastMsg' = [type |-> "TIMESLOT", old |-> old_timeslot, new |-> new_timeslot,
                   completed |-> completed_timeslot,
                   reported |-> IF Len(tsChan) >= TsChanCap /\ report_due
                                THEN error_counter + 1 ELSE 0]

handle_task_collection_flush ==
    task_collection' = tc_flush_removals(task_collection)

\* BpfTimeslotTracker calls its two subscribers in registration order
timeslot_boundary(old_timeslot, new_timeslot, report_due) ==
    /\ handle_new_timeslot(old_timeslot, new_timeslot, report_due)
    /\ handle_task_collection_flush
    /\ seenMeta' = [p \in Pids |-> None]

\* TaskRunner::run takes the next timeslot from the channel
writer_recv ==
    /\ Len(tsChan) > 0
    /\ tsChan' = Tail(tsChan)
    /\ lastMsg' = [type |-> "writer_recv"]
    /\ UNCHANGED <<task_collection, current_timeslot, error_counter, seenMeta>>

InitCollector ==
    /\ task_collection = TaskCollectionNew
    /\ current_timeslot = TimeslotDataNew(0)
    /\ tsChan = <<>>
    /\ error_counter = 0
    /\ lastMsg = [type |-> "none"]
    /\ seenMeta = [p \in Pids |-> None]

(***************************************************************************)
(* Resctrl::reconcile_group(group_path, pid_resolver, max_passes): one     *)
(* call, step by step.  Every pass writes the pids of the newest resolver  *)
(* snapshot that the tasks file lacks, then takes a fresh snapshot: the    *)
(* call returns missing = 0 when that snapshot has nothing the tasks file  *)
(* lacks, goes on with that snapshot otherwise, and after the last pass    *)
(* reports what is still unassigned.                                       *)
(***************************************************************************)
\* the latest snapshot index at which the resolver may still change
MaxStableAt == 2
\* the largest max_passes a call is given
MaxPasses == 3

ResolverPids == {1, 2, 3}
WriteOutcomes == {"ok", "ESRCH"}

VARIABLES
    rg                 \* the reconcile_group call in progress

reconcileVars == <<rg>>

RgIdle == [pc |-> "idle"]

\* the resolver's answer at snapshot number n: anything before the set
\* has stabilised, the stable set from then on
pid_resolver(n) ==
    IF n >= rg.stable_at THEN {rg.stable} ELSE SUBSET ResolverPids

\* ContainerSyncState recorded for an AssignReport
new_state_of(missing) == IF missing = 0 THEN "Reconciled" ELSE "Partial"

rg_call ==
    /\ rg.pc = "idle"
    /\ \E k \in 1..MaxStableAt, mp \in 1..MaxPasses, st \in SUBSET ResolverPids :
         rg' = [pc |-> "resolve", stable_at |-> k, stable |-> st,
                max_passes |-> mp, pass |-> 1, snapshots |-> 0,
                tasks |-> {}, todo |-> {}, assigned |-> 0, gone |-> {},
                missing |-> 0]

\* step 1 and 2 of the first pass: resolve, subtract what tasks holds
rg_resolve ==
    /\ rg.pc = "resolve"
    /\ \E cur \in pid_resolver(rg.snapshots + 1) :
         rg' = [rg EXCEPT !.pc = "write", !.snapshots = @ + 1,
                          !.todo = cur \ rg.tasks]

\* step 3: write the next remaining pid; ESRCH is ignored
rg_write ==
    /\ rg.pc = "write" /\ rg.todo # {}
    /\ LET p == CHOOSE x \in rg.todo : \A y \in rg.todo : x <= y IN
       \E o \in WriteOutcomes :
         rg' = [rg EXCEPT !.todo = @ \ {p},
                          !.tasks = IF o = "ok" THEN @ \cup {p} ELSE @,
                          !.assigned = IF o = "ok" THEN @ + 1 ELSE @,
                          !.gone = IF o = "ESRCH" THEN @ \cup {p} ELSE @]

rg_check_single_pass ==
    /\ rg.pc = "write" /\ rg.todo = {}
    /\ \E newest \in pid_resolver(rg.snapshots + 1) :
         rg' = [rg EXCEPT !.pc = "done", !.snapshots = @ + 1,
                          !.missing = Cardinality(newest \ rg.tasks)]

\* steps 4 and 5: the newest snapshot decides
rg_check ==
    /\ rg.pc = "write" /\ rg.todo = {}
    /\ \E newest \in pid_resolver(rg.snapshots + 1) :
         LET unassigned == newest \ rg.tasks IN
         IF unassigned = {}
         THEN rg' = [rg EXCEPT !.pc = "done", !.snapshots = @ + 1, !.missing = 0]
         ELSE IF rg.pass >= rg.max_passes
         THEN rg' = [rg EXCEPT !.pc = "done", !.snapshots = @ + 1,
                               !.missing = Cardinality(unassigned)]
         ELSE rg' = [rg EXCEPT !.pass = @ + 1, !.snapshots = @ + 1,
                               !.todo = unassigned]

\* the caller took the AssignReport
rg_return ==
    /\ rg.pc = "done"
    /\ rg' = RgIdle

InitReconcile == rg = RgIdle

(***************************************************************************)
(* retry_all_once: one pass, as a caller of retry_group_creation and       *)
(* retry_container_reconcile.  Each step is one critical section (or one   *)
(* filesystem call) of the operation the pass is in.                       *)
(***************************************************************************)
VARIABLES
    ra                 \* the retry_all_once pass in progress

retryVars == <<ra>>

RaIdle == [pc |-> "idle"]
RaInPass == ra.pc \notin {"idle", "returned"}

\* the orders in which a HashMap may iterate over S
Orders(S) ==
    {sq \in [1..Cardinality(S) -> S] : \A i, j \in DOMAIN sq : sq[i] = sq[j] => i = j}

\* for cid in partial_containers: the loop head
ToContainers(r) ==
    IF r.partial_containers = <<>>
    THEN [r EXCEPT !.pc = "done", !.result = Ok("")]
    ELSE [r EXCEPT !.pc = "containers"]

\* for uid in failed_pods: the loop head
ToPods(r) ==
    IF r.failed_pods = <<>> THEN ToContainers(r) ELSE [r EXCEPT !.pc = "pods"]

after_group_retry_continues(r) ==
    IF r = Err("Capacity")
    THEN ToPods([ra EXCEPT !.capacity = TRUE, !.failed_pods = Tail(@)])
    ELSE IF r = Err("PodNotFound") \/ r[1] = "Ok"
    THEN ToPods([ra EXCEPT !.failed_pods = Tail(@)])
    ELSE [ra EXCEPT !.pc = "done", !.result = r]

\* match self.retry_group_creation(&uid)
after_group_retry(r) ==
    IF r = Err("Capacity")
    THEN ToContainers([ra EXCEPT !.capacity = TRUE])
    ELSE IF r = Err("PodNotFound") \/ r[1] = "Ok"
    THEN ToPods([ra EXCEPT !.failed_pods = Tail(@)])
    ELSE [ra EXCEPT !.pc = "done", !.result = r]

after_container_retry_once(r) ==
    IF r[1] = "Ok"
    THEN [ra EXCEPT !.pc = "done", !.result = Ok("")]
    ELSE IF r \in {Err("ContainerNotFound"), Err("PodNotFound")}
    THEN ToContainers([ra EXCEPT !.partial_containers = Tail(@)])
    ELSE [ra EXCEPT !.pc = "done", !.result = r]

\* match self.retry_container_reconcile(&cid)
after_container_retry(r) ==
    IF r[1] = "Ok" \/ r \in {Err("ContainerNotFound"), Err("PodNotFound")}
    THEN ToContainers([ra EXCEPT !.partial_containers = Tail(@)])
    ELSE [ra EXCEPT !.pc = "done", !.result = r]

\* the snapshot of the Failed pods and the Partial containers
ra_snapshot ==
    /\ ra.pc = "idle"
    /\ LET failed == {u \in DOMAIN pods : pods[u].group_state = Failed}
           partial == {c \in DOMAIN containers : containers[c].state = "Partial"} IN
       \E fp \in Orders(failed), pc \in Orders(partial) :
         ra' = ToPods([pc |-> "pods", failed_pods |-> fp, partial_containers |-> pc,
                       snapshot |-> partial, capacity |-> FALSE,
                       late_creates |-> FALSE, retried |-> {}, result |-> Continue])
    /\ NoEmit
    /\ UNCHANGED <<pods, containers, groups, inflight>>

ra_rgc_begin ==
    /\ ra.pc = "pods"
    /\ LET u == Head(ra.failed_pods)
           r == rgc_begin_result(u) IN
       /\ rgc_begin(u)
       /\ ra' = IF r = Continue THEN [ra EXCEPT !.pc = "rgc_create"]
                ELSE after_group_retry(r)

ra_rgc_create ==
    /\ ra.pc = "rgc_create"
    /\ \E o \in CreateOutcomes :
         LET r == rgc_create_result(o) IN
         /\ rgc_create_with(Head(ra.failed_pods), o)
         /\ ra' = [IF r = Continue THEN [ra EXCEPT !.pc = "rgc_commit"]
                   ELSE after_group_retry(r)
                     EXCEPT !.late_creates = ra.late_creates \/ ra.capacity]

ra_rgc_commit ==
    /\ ra.pc = "rgc_commit"
    /\ LET u == Head(ra.failed_pods)
           r == rgc_commit_result(u) IN
       /\ rgc_commit(u)
       /\ ra' = IF r = Continue THEN [ra EXCEPT !.pc = "rgc_cleanup"]
                ELSE after_group_retry(r)

ra_rgc_cleanup ==
    /\ ra.pc = "rgc_cleanup"
    /\ rgc_cleanup(Head(ra.failed_pods))
    /\ ra' = after_group_retry(rgc_cleanup_result)

ra_rcr_begin ==
    /\ ra.pc = "containers"
    /\ LET c == Head(ra.partial_containers)
           r == rcr_begin_result(c) IN
       /\ rcr_begin(c)
       /\ ra' = [IF r = Continue THEN [ra EXCEPT !.pc = "rcr_commit"]
                 ELSE after_container_retry(r)
                   EXCEPT !.retried = ra.retried \cup {c}]

ra_rcr_commit ==
    /\ ra.pc = "rcr_commit"
    /\ LET c == Head(ra.partial_containers) IN
       \E res \in ReconcileOutcomes :
         /\ rcr_commit_with(c, PodOf(c), res)
         /\ ra' = after_container_retry(rcr_commit_result(c, PodOf(c), res))

\* the caller took the result
ra_return ==
    /\ ra.pc = "done"
    /\ ra' = [pc |-> "returned"]
    /\ NoEmit
    /\ UNCHANGED <<pods, containers, groups, inflight>>

InitRetryAll == ra = RaIdle

(***************************************************************************)
(* Startup synchronize over a resctrl tree that holds entries of earlier   *)
(* runs: ensure_mounted, cleanup_all, then handle_new_pod for every pod    *)
(* and handle_new_container for every container of the request.            *)
(***************************************************************************)
VARIABLES
    dirs,              \* the entries of the resctrl root and of root/mon_groups
    sy                 \* the synchronize call

cleanupVars == <<dirs, sy>>

\* ResctrlPluginConfig::default().group_prefix, as characters
group_prefix == <<"p", "o", "d", "_">>

Entry(parent, name, kind) == [parent |-> parent, name |-> name, kind |-> kind]

\* what a mounted resctrl always has
KernelEntries ==
    { Entry("root", <<"i", "n", "f", "o">>, "dir"),
      Entry("root", <<"m", "o", "n", "_", "g", "r", "o", "u", "p", "s">>, "dir"),
      Entry("root", <<"t", "a", "s", "k", "s">>, "file") }

\* what earlier runs and other users may have left
StaleEntries ==
    { Entry("root", group_prefix \o <<"x">>, "dir"),
      Entry("root", <<"p", "o", "d">>, "dir"),
      Entry("root", <<"o", "t", "h", "e", "r">>, "dir"),
      Entry("mon_groups", group_prefix \o <<"y">>, "dir"),
      Entry("mon_groups", <<"f", "o", "o">>, "dir") }

has_prefix_first(name) == name # <<>> /\ Head(name) = Head(group_prefix)

\* name.starts_with(prefix)
has_prefix(name) ==
    /\ Len(name) >= Len(group_prefix)
    /\ SubSeq(name, 1, Len(group_prefix)) = group_prefix

\* the directories cleanup_all tries to remove
prefix_dirs(d) ==
    {e \in d : e.kind = "dir" /\ e.parent \in {"root", "mon_groups"} /\ has_prefix(e.name)}

\* cleanup_all when the removal of the directories in `failed` fails
cleanup_all(d, failed) == d \ (prefix_dirs(d) \ failed)

SyBoot == [pc |-> "boot"]
SyRunning == sy.pc # "boot"

\* resctrl is mounted before the plugin starts, with the entries it then holds
resctrl_mounted ==
    /\ sy.pc = "boot"
    /\ dirs = {}
    /\ \E stale \in SUBSET StaleEntries : dirs' = KernelEntries \cup stale
    /\ UNCHANGED <<sy, pluginVars>>

\* synchronize up to the end of the startup cleanup; auto_mount is off, so
\* ensure_mounted fails when resctrl is not mounted
sy_cleanup ==
    /\ sy.pc = "boot"
    /\ \E rp \in SUBSET PodUids, rc \in SUBSET ContainerIds,
          mounted_ok \in (IF dirs = {} THEN {FALSE} ELSE BOOLEAN),
          cleanup_ok \in BOOLEAN,
          failed \in SUBSET prefix_dirs(dirs) :
         LET cleans == cleanup_on_start /\ mounted_ok /\ cleanup_ok IN
         /\ ~cleans => failed = {}
         /\ synchronize_startup_with(mounted_ok, cleanup_ok)
         /\ dirs' = IF cleans THEN cleanup_all(dirs, failed) ELSE dirs
         /\ sy' = [pc |-> "sync",
                   pods |-> rp,
                   containers |-> {c \in rc : PodOf(c) \in rp},
                   req_containers |-> rc,
                   cur |-> "",
                   empty_req |-> (rp = {} /\ rc = {}),
                   before |-> dirs,
                   cleaned |-> (cleans /\ failed = {}),
                   emitted |-> FALSE]

\* for pod in &req.pods
sy_pod ==
    /\ sy.pc = "sync"
    /\ \E u \in sy.pods :
         /\ handle_new_pod(u)
         /\ sy' = [sy EXCEPT !.pods = @ \ {u},
                             !.emitted = @ \/ out'.by # "none"]
    /\ dirs' = dirs

\* for c in &req.containers: the first critical section
sy_container ==
    /\ sy.pc = "sync"
    /\ sy.pods = {}
    /\ \E c \in sy.containers :
         /\ hnc_begin(c)
         /\ sy' = IF CopiesIn(HncTask(PodOf(c), c), inflight') >
                        CopiesIn(HncTask(PodOf(c), c), inflight)
                  THEN [sy EXCEPT !.pc = "reconcile", !.cur = c,
                                  !.containers = @ \ {c}]
                  ELSE [sy EXCEPT !.containers = @ \ {c},
                                  !.emitted = @ \/ out'.by # "none"]
    /\ dirs' = dirs

\* for c in &req.containers: reconcile_group and the second critical section
sy_container_commit ==
    /\ sy.pc = "reconcile"
    /\ hnc_commit(sy.cur)
    /\ sy' = [sy EXCEPT !.pc = "sync", !.cur = "",
                        !.emitted = @ \/ out'.by # "none"]
    /\ dirs' = dirs

\* Ok(SynchronizeResponse)
sy_return ==
    /\ sy.pc = "sync"
    /\ sy.pods = {}
    /\ sy.containers = {}
    /\ sy' = [sy EXCEPT !.pc = "done"]
    /\ NoEmit
    /\ UNCHANGED <<pods, containers, groups, inflight, dirs>>

InitCleanup ==
    /\ dirs = {}
    /\ sy = SyBoot

(***************************************************************************)
(* The records folded into the running timeslot, kept next to              *)
(* PerfEventProcessor to compare the aggregate with its inputs             *)
(***************************************************************************)
VARIABLES
    folded             \* bag of the PERF_MEASUREMENT records of the running timeslot

foldVars == <<folded>>

\* the cycles_delta values of the records
FoldDeltas == {1, 2}

PerfRecord(pid, cycles) == [pid |-> pid, cycles |-> cycles]

RECURSIVE SumCycles(_, _)
SumCycles(B, S) ==
    IF S = {} THEN 0
    ELSE LET r == CHOOSE x \in S : TRUE IN
         r.cycles * CopiesIn(r, B) + SumCycles(B, S \ {r})

\* the sum of the cycles_delta of the records of `pid` in the bag
CyclesOf(B, pid) == SumCycles(B, {r \in BagToSet(B) : r.pid = pid})

fold_task_metadata(pid, comm) ==
    /\ handle_task_metadata(pid, comm)
    /\ folded' = folded

fold_task_free(pid) ==
    /\ handle_task_free(pid)
    /\ folded' = folded

fold_perf_measurement(pid, cycles) ==
    /\ handle_perf_measurement(pid, cycles)
    /\ folded' = folded (+) SetToBag({PerfRecord(pid, cycles)})

fold_timeslot_boundary(old_timeslot, new_timeslot, report_due) ==
    /\ timeslot_boundary(old_timeslot, new_timeslot, report_due)
    /\ folded' = EmptyBag

fold_writer_recv ==
    /\ writer_recv
    /\ folded' = folded

InitFold == folded = EmptyBag

(***************************************************************************)
(* The shutdown protocol of the collector (crates/collector/src/main.rs):  *)
(* the monitoring task, the BPF polling loop of the main thread and the    *)
(* writer task (parquet_writer_task.rs, TaskRunner::run).  Timeslots are   *)
(* reduced to their sequence numbers.  ParquetWriter and the sender side   *)
(* of ParquetWriterTask (sender, rotate, shutdown) are not in the source   *)
(* tree: the writer's calls succeed or fail, rotate enqueues one signal on *)
(* a channel of capacity RotateCap, shutdown closes the timeslot channel   *)
(* and waits for the writer task.                                          *)
(***************************************************************************)
\* timeslots the BPF side completes
MaxSlots == 2
\* capacity of the timeslot channel (1000 in main())
SlotChanCap == 1
\* seconds the clock of the monitoring task runs
MaxTime == 2

\* capacity of the rotate channel
RotateCap == 1
\* the values of --duration: unlimited, or two seconds
Durations == {0, 2}
TermSignals == {"SIGTERM", "SIGINT"}
Signals == TermSignals \cup {"SIGUSR1"}

VARIABLES
    mon,               \* the monitoring task: pc, result, duration, start of its sleep, cause of shutdown
    wr,                \* the writer task: pc, result, timeslots written, calls of close, a failed rotate
    main_pc,           \* the main thread: polling, checked, joining (monitoring_handle), returned
    chans,             \* shutdown and bpf_error oneshots, timeslot and rotate channels
    env                \* clock, pending signals, timeslots completed so far

shutdownVars == <<mon, wr, main_pc, chans, env>>

MonInit == [pc |-> "init", result |-> "none", duration |-> 0, sleep_from |-> 0,
            cause |-> "none"]
WrInit == [pc |-> "select", result |-> "none", written |-> <<>>, closes |-> 0,
           rotate_failed |-> FALSE]
ChansInit == [shutdown |-> "empty", bpf_error |-> "empty", timeslots |-> <<>>,
              timeslots_open |-> TRUE, accepted |-> <<>>, rotate |-> 0]
EnvInit == [now |-> 0, signals |-> {}, slots |-> 0]

\* oneshot::Sender::send: the value is stored unless the receiver is gone
OneshotSend(c) == IF c = "empty" THEN "sent" ELSE c

\* ---- the monitoring task --------------------------------------------------
\* the task starts: Duration::from_secs(opts.duration) and the three
\* signal() registrations; a failed registration returns the error at once
\* and drops what the task owns (shutdown_tx, bpf_error_rx, writer_task)
mon_start(duration, registered) ==
    /\ mon.pc = "init"
    /\ IF registered
       THEN /\ mon' = [mon EXCEPT !.pc = "select", !.duration = duration,
                                  !.sleep_from = env.now]
            /\ chans' = chans
       ELSE /\ mon' = [mon EXCEPT !.pc = "done", !.result = "err"]
            /\ chans' = [chans EXCEPT !.shutdown = "dropped", !.bpf_error = "dropped"]
    /\ UNCHANGED <<wr, main_pc, env>>

\* after the loop: shutdown_tx.send(()) and writer_task.shutdown(), which
\* closes the timeslot channel before it waits for the writer task
mon_break(cause) ==
    /\ mon' = [mon EXCEPT !.pc = "shutting", !.cause = cause]
    /\ chans' = [chans EXCEPT !.shutdown = OneshotSend(@), !.timeslots_open = FALSE]

\* the sleep of this pass of the loop has elapsed
TimeoutElapsed == mon.duration > 0 /\ env.now - mon.sleep_from >= mon.duration

mon_timeout ==
    /\ mon.pc = "select"
    /\ TimeoutElapsed
    /\ mon_break("timeout")
    /\ UNCHANGED <<wr, main_pc, env>>

\* sigterm.recv() or sigint.recv()
mon_terminate(sig) ==
    /\ mon.pc = "select"
    /\ sig \in env.signals
    /\ mon_break(sig)
    /\ env' = [env EXCEPT !.signals = @ \ {sig}]
    /\ UNCHANGED <<wr, main_pc>>

mon_sigusr1_breaks ==
    /\ mon.pc = "select"
    /\ "SIGUSR1" \in env.signals
    /\ env' = [env EXCEPT !.signals = @ \ {"SIGUSR1"}]
    /\ mon_break("SIGUSR1")
    /\ UNCHANGED <<wr, main_pc>>

\* sigusr1.recv(): writer_task.rotate(), an error is logged, and the loop
\* goes round: the next select! builds a new sleep(duration)
mon_sigusr1 ==
    /\ mon.pc = "select"
    /\ "SIGUSR1" \in env.signals
    /\ env' = [env EXCEPT !.signals = @ \ {"SIGUSR1"}]
    /\ chans' = IF wr.pc = "select" /\ chans.rotate < RotateCap
                THEN [chans EXCEPT !.rotate = @ + 1]
                ELSE chans
    /\ mon' = [mon EXCEPT !.sleep_from = env.now]
    /\ UNCHANGED <<wr, main_pc>>

\* &mut bpf_error_rx resolves with the message of the polling loop
mon_bpf_error ==
    /\ mon.pc = "select"
    /\ chans.bpf_error = "sent"
    /\ mon_break("bpf_error")
    /\ UNCHANGED <<wr, main_pc, env>>

\* writer_task.join_handle() resolves: shutdown_tx.send(()) and return Err,
\* whatever the writer task returned
mon_writer_done ==
    /\ mon.pc = "select"
    /\ wr.pc = "done"
    /\ mon' = [mon EXCEPT !.pc = "done", !.result = "err", !.cause = "writer_done"]
    /\ chans' = [chans EXCEPT !.shutdown = OneshotSend(@)]
    /\ UNCHANGED <<wr, main_pc, env>>

\* writer_task.shutdown().await returns the result of the writer task
mon_joined ==
    /\ mon.pc = "shutting"
    /\ wr.pc = "done"
    /\ mon' = [mon EXCEPT !.pc = "done",
                          !.result = IF wr.result = "ok" THEN "ok" ELSE "err"]
    /\ UNCHANGED <<wr, main_pc, chans, env>>

\* ---- the BPF polling loop of the main thread ------------------------------
\* the top of a pass: shutdown_rx.try_recv().is_ok() ends the loop, and only
\* a sent value makes it true
bpf_shutdown_check ==
    /\ main_pc = "polling"
    /\ main_pc' = IF chans.shutdown = "sent" THEN "joining" ELSE "checked"
    /\ UNCHANGED <<mon, wr, chans, env>>

\* poll_events(10) returns Ok; when a timeslot completes in it, the callback
\* calls try_send, which fails when the channel is full or closed
bpf_poll_events(completes) ==
    /\ main_pc = "checked"
    /\ main_pc' = "polling"
    /\ IF completes
       THEN /\ env.slots < MaxSlots
            /\ env' = [env EXCEPT !.slots = @ + 1]
            /\ chans' = IF /\ chans.timeslots_open
                           /\ wr.pc = "select"
                           /\ Len(chans.timeslots) < SlotChanCap
                        THEN [chans EXCEPT !.timeslots = Append(@, env.slots + 1),
                                           !.accepted = Append(@, env.slots + 1)]
                        ELSE chans
       ELSE UNCHANGED <<chans, env>>
    /\ UNCHANGED <<mon, wr>>

\* poll_events(10) returns Err: bpf_error_tx.send(..) and break
bpf_poll_error ==
    /\ main_pc = "checked"
    /\ chans' = [chans EXCEPT !.bpf_error = OneshotSend(@)]
    /\ main_pc' = "joining"
    /\ UNCHANGED <<mon, wr, env>>

\* runtime.block_on(monitoring_handle) returns, and main returns
main_return ==
    /\ main_pc = "joining"
    /\ mon.pc = "done"
    /\ main_pc' = "returned"
    /\ UNCHANGED <<mon, wr, chans, env>>

\* ---- TaskRunner::run ------------------------------------------------------
\* the task returns: both receivers are dropped with what they hold
ReceiversDropped == [chans EXCEPT !.timeslots = <<>>, !.rotate = 0]

\* timeslot_receiver.recv() returns Some(timeslot): timeslot_to_batch(..)?
\* and write(batch).await?
wr_timeslot(converted, wrote) ==
    /\ wr.pc = "select"
    /\ chans.timeslots # <<>>
    /\ IF converted /\ wrote
       THEN /\ wr' = [wr EXCEPT !.written = Append(@, Head(chans.timeslots))]
            /\ chans' = [chans EXCEPT !.timeslots = Tail(@)]
       ELSE /\ wr' = [wr EXCEPT !.pc = "done",
                                !.result = IF converted THEN "write_err"
                                           ELSE "convert_err"]
            /\ chans' = ReceiversDropped
    /\ UNCHANGED <<mon, main_pc, env>>

wr_closed_undrained(closed_ok) ==
    /\ wr.pc = "select"
    /\ ~chans.timeslots_open
    /\ wr' = [wr EXCEPT !.pc = "done", !.closes = @ + 1,
                        !.result = IF closed_ok THEN "ok" ELSE "close_err"]
    /\ chans' = ReceiversDropped
    /\ UNCHANGED <<mon, main_pc, env>>

\* timeslot_receiver.recv() returns None: break, and writer.close().await
\* is the result of the task
wr_closed(closed_ok) ==
    /\ wr.pc = "select"
    /\ chans.timeslots = <<>>
    /\ ~chans.timeslots_open
    /\ wr' = [wr EXCEPT !.pc = "done", !.closes = @ + 1,
                        !.result = IF closed_ok THEN "ok" ELSE "close_err"]
    /\ chans' = ReceiversDropped
    /\ UNCHANGED <<mon, main_pc, env>>

\* rotate_receiver.recv() returns Some(_): writer.rotate().await, logged
wr_rotate(rotated) ==
    /\ wr.pc = "select"
    /\ chans.rotate > 0
    /\ chans' = [chans EXCEPT !.rotate = @ - 1]
    /\ wr' = IF rotated THEN wr
             ELSE [wr EXCEPT !.rotate_failed = TRUE]
    /\ UNCHANGED <<mon, main_pc, env>>

\* ---- the environment ------------------------------------------------------
\* a signal is delivered to the process while the monitoring task listens
signal_arrives(sig) ==
    /\ mon.pc = "select"
    /\ sig \notin env.signals
    /\ env' = [env EXCEPT !.signals = @ \cup {sig}]
    /\ UNCHANGED <<mon, wr, main_pc, chans>>

\* a second passes on the clock of the monitoring task; the clock is
\* followed while a sleep(duration) is pending
tick ==
    /\ mon.pc = "select"
    /\ mon.duration > 0
    /\ env.now < MaxTime
    /\ env' = [env EXCEPT !.now = @ + 1]
    /\ UNCHANGED <<mon, wr, main_pc, chans>>

InitShutdown ==
    /\ mon = MonInit
    /\ wr = WrInit
    /\ main_pc = "polling"
    /\ chans = ChansInit
    /\ env = EnvInit

(***************************************************************************)
(* The dispatch of one TIMESLOT boundary, subscriber by subscriber.        *)
(* PerfEventProcessor::new registers two subscribers with the timeslot     *)
(* tracker, handle_new_timeslot first and handle_task_collection_flush     *)
(* second; the tracker calls them in that order from inside the handling   *)
(* of one message, on the BPF polling thread, so no other handler runs     *)
(* between the two calls.                                                  *)
(***************************************************************************)
VARIABLES
    dispatch           \* the boundary whose subscribers are being called

dispatchVars == <<dispatch>>

DispatchIdle == [pc |-> "idle"]

\* the first subscriber runs and the second is still to be called
dp_new_timeslot_flushes_first(old_timeslot, new_timeslot, report_due) ==
    /\ dispatch = DispatchIdle
    /\ handle_task_collection_flush
    /\ seenMeta' = [p \in Pids |-> None]
    /\ lastMsg' = [type |-> "TIMESLOT", old |-> old_timeslot, new |-> new_timeslot,
                   completed |-> current_timeslot, reported |-> 0]
    /\ UNCHANGED <<current_timeslot, tsChan, error_counter>>
    /\ dispatch' = [pc |-> "handed", old |-> old_timeslot, new |-> new_timeslot]

dp_new_timeslot(old_timeslot, new_timeslot, report_due) ==
    /\ dispatch = DispatchIdle
    /\ handle_new_timeslot(old_timeslot, new_timeslot, report_due)
    /\ UNCHANGED <<task_collection, seenMeta>>
    /\ dispatch' = [pc |-> "handed", old |-> old_timeslot, new |-> new_timeslot]

\* the second subscriber
dp_task_collection_flush ==
    /\ dispatch.pc = "handed"
    /\ handle_task_collection_flush
    /\ seenMeta' = [p \in Pids |-> None]
    /\ UNCHANGED <<current_timeslot, tsChan, error_counter, lastMsg>>
    /\ dispatch' = DispatchIdle

\* the dispatcher takes the next message only when the handlers of the
\* last one have returned
dp_task_metadata(pid, comm) ==
    /\ dispatch = DispatchIdle
    /\ handle_task_metadata(pid, comm)
    /\ UNCHANGED dispatch

dp_task_free(pid) ==
    /\ dispatch = DispatchIdle
    /\ handle_task_free(pid)
    /\ UNCHANGED dispatch

dp_perf_measurement(pid, cycles) ==
    /\ dispatch = DispatchIdle
    /\ handle_perf_measurement(pid, cycles)
    /\ UNCHANGED dispatch

\* the writer task runs on another thread
dp_writer_recv ==
    /\ writer_recv
    /\ UNCHANGED dispatch

InitDispatch == dispatch = DispatchIdle

(***************************************************************************)
(* The container callbacks with a record of the removals: the container    *)
(* ids for which REMOVE_CONTAINER has returned and no create_container     *)
(* has been issued since.                                                  *)
(***************************************************************************)
VARIABLES
    removed            \* ids removed and not created again since

staleVars == <<removed>>

\* create_container is issued: the first critical section
st_create_container(c) ==
    /\ hnc_begin(c)
    /\ removed' = removed \ {c}

\* the relock of a create_container in flight
st_create_container_commit(c) ==
    /\ hnc_commit(c)
    /\ UNCHANGED removed

\* REMOVE_CONTAINER runs and returns
st_remove_container(c) ==
    /\ remove_container(c)
    /\ removed' = removed \cup {c}

InitStale == removed = {}

(***************************************************************************)
(* Specification of the plugin                                             *)
(***************************************************************************)
InitPlugin ==
    /\ pods = <<>>
    /\ containers = <<>>
    /\ groups = {}
    /\ inflight = EmptyBag
    /\ chanLen = 0
    /\ dropped_events = 0
    /\ out = NoOutput
    /\ lastEv = [u \in PodUids \cup RaPodUids |-> NoEvent]

RunPodSandbox == \E u \in PodUids : handle_new_pod(u) /\ UNCHANGED <<collectorVars, reconcileVars, foldVars, dispatchVars, staleVars, shutdownVars, retryVars, cleanupVars>>
CreateContainer == \E c \in ContainerIds : hnc_begin(c) /\ UNCHANGED <<collectorVars, reconcileVars, foldVars, dispatchVars, staleVars, shutdownVars, retryVars, cleanupVars>>
CreateContainerCommit ==
    \E c \in ContainerIds : hnc_commit(c) /\ UNCHANGED <<collectorVars, reconcileVars, foldVars, dispatchVars, staleVars, shutdownVars, retryVars, cleanupVars>>
UpdateContainer ==
    \E c \in ContainerIds : update_container(c) /\ UNCHANGED <<collectorVars, reconcileVars, foldVars, dispatchVars, staleVars, shutdownVars, retryVars, cleanupVars>>
RemovePodSandbox ==
    \E u \in PodUids : remove_pod_sandbox(u) /\ UNCHANGED <<collectorVars, reconcileVars, foldVars, dispatchVars, staleVars, shutdownVars, retryVars, cleanupVars>>
RemovePodDelete == \E u \in PodUids : remove_pod_delete(u) /\ UNCHANGED <<collectorVars, reconcileVars, foldVars, dispatchVars, staleVars, shutdownVars, retryVars, cleanupVars>>
RemoveContainer ==
    \E c \in ContainerIds : remove_container(c) /\ UNCHANGED <<collectorVars, reconcileVars, foldVars, dispatchVars, staleVars, shutdownVars, retryVars, cleanupVars>>
RetryGroupCreation == \E u \in PodUids : rgc_begin(u) /\ UNCHANGED <<collectorVars, reconcileVars, foldVars, dispatchVars, staleVars, shutdownVars, retryVars, cleanupVars>>
RetryGroupCreate == \E u \in PodUids : rgc_create(u) /\ UNCHANGED <<collectorVars, reconcileVars, foldVars, dispatchVars, staleVars, shutdownVars, retryVars, cleanupVars>>
RetryGroupCommit == \E u \in PodUids : rgc_commit(u) /\ UNCHANGED <<collectorVars, reconcileVars, foldVars, dispatchVars, staleVars, shutdownVars, retryVars, cleanupVars>>
RetryGroupCleanup == \E u \in PodUids : rgc_cleanup(u) /\ UNCHANGED <<collectorVars, reconcileVars, foldVars, dispatchVars, staleVars, shutdownVars, retryVars, cleanupVars>>
RetryContainerReconcile ==
    \E c \in ContainerIds : rcr_begin(c) /\ UNCHANGED <<collectorVars, reconcileVars, foldVars, dispatchVars, staleVars, shutdownVars, retryVars, cleanupVars>>
RetryContainerCommit ==
    \E c \in ContainerIds : rcr_commit(c) /\ UNCHANGED <<collectorVars, reconcileVars, foldVars, dispatchVars, staleVars, shutdownVars, retryVars, cleanupVars>>
SynchronizeStartup == synchronize_startup /\ UNCHANGED <<collectorVars, reconcileVars, foldVars, dispatchVars, staleVars, shutdownVars, retryVars, cleanupVars>>
EventRecv == event_recv /\ UNCHANGED <<collectorVars, reconcileVars, foldVars, dispatchVars, staleVars, shutdownVars, retryVars, cleanupVars>>

NextPlugin ==
    \/ RunPodSandbox
    \/ CreateContainer
    \/ CreateContainerCommit
    \/ RemovePodSandbox
    \/ RemovePodDelete
    \/ RemoveContainer
    \/ RetryGroupCreation
    \/ RetryGroupCreate
    \/ RetryGroupCommit
    \/ RetryGroupCleanup
    \/ RetryContainerReconcile
    \/ RetryContainerCommit
    \/ SynchronizeStartup
    \/ EventRecv

(***************************************************************************)
(* Specifications: Spec is the plugin, SpecCollector the timeslot pipeline *)
(***************************************************************************)
Malformed == malformed_message /\ UNCHANGED <<pluginVars, reconcileVars, foldVars, dispatchVars, staleVars, shutdownVars, retryVars, cleanupVars>>
TaskMetadataMsg ==
    \E pid \in Pids, comm \in Comms :
        handle_task_metadata(pid, comm) /\ UNCHANGED <<pluginVars, reconcileVars, foldVars, dispatchVars, staleVars, shutdownVars, retryVars, cleanupVars>>
TaskFreeMsg == \E pid \in Pids : handle_task_free(pid) /\ UNCHANGED <<pluginVars, reconcileVars, foldVars, dispatchVars, staleVars, shutdownVars, retryVars, cleanupVars>>
PerfMeasurementMsg ==
    \E pid \in Pids, cycles \in CyclesDeltas :
        handle_perf_measurement(pid, cycles) /\ UNCHANGED <<pluginVars, reconcileVars, foldVars, dispatchVars, staleVars, shutdownVars, retryVars, cleanupVars>>
TimeslotMsg ==
    \E new \in 1..MaxTs, report_due \in BOOLEAN :
        /\ new > current_timeslot.timestamp
        /\ \E old \in {current_timeslot.timestamp, new - 1} :
             timeslot_boundary(old, new, report_due)
        /\ UNCHANGED <<pluginVars, reconcileVars, foldVars, dispatchVars, staleVars, shutdownVars, retryVars, cleanupVars>>
WriterRecv == writer_recv /\ UNCHANGED <<pluginVars, reconcileVars, foldVars, dispatchVars, staleVars, shutdownVars, retryVars, cleanupVars>>

NextCollector ==
    \/ Malformed
    \/ TaskMetadataMsg
    \/ TaskFreeMsg
    \/ PerfMeasurementMsg
    \/ TimeslotMsg
    \/ WriterRecv

\* The fold of one timeslot, with the records it folds
FoldMetadata ==
    \E pid \in Pids, comm \in Comms :
        fold_task_metadata(pid, comm) /\ UNCHANGED <<pluginVars, reconcileVars, retryVars, cleanupVars, shutdownVars, dispatchVars, staleVars>>
FoldFree ==
    \E pid \in Pids :
        fold_task_free(pid) /\ UNCHANGED <<pluginVars, reconcileVars, retryVars, cleanupVars, shutdownVars, dispatchVars, staleVars>>
FoldPerf ==
    \E pid \in Pids, cycles \in FoldDeltas :
        fold_perf_measurement(pid, cycles) /\ UNCHANGED <<pluginVars, reconcileVars, retryVars, cleanupVars, shutdownVars, dispatchVars, staleVars>>
FoldBoundary ==
    \E new \in 1..MaxTs, report_due \in BOOLEAN :
        /\ new > current_timeslot.timestamp
        /\ \E old \in {current_timeslot.timestamp, new - 1} :
             fold_timeslot_boundary(old, new, report_due)
        /\ UNCHANGED <<pluginVars, reconcileVars, retryVars, cleanupVars, shutdownVars, dispatchVars, staleVars>>
FoldWriterRecv == fold_writer_recv /\ UNCHANGED <<pluginVars, reconcileVars, retryVars, cleanupVars, shutdownVars, dispatchVars, staleVars>>

NextFold ==
    \/ FoldMetadata
    \/ FoldFree
    \/ FoldPerf
    \/ FoldBoundary
    \/ FoldWriterRecv

\* The shutdown protocol: monitoring task, BPF polling loop, writer task
MonStart ==
    \E duration \in Durations, registered \in BOOLEAN :
        mon_start(duration, registered) /\ UNCHANGED <<pluginVars, collectorVars, reconcileVars, retryVars, cleanupVars, foldVars, dispatchVars, staleVars>>
MonTimeout == mon_timeout /\ UNCHANGED <<pluginVars, collectorVars, reconcileVars, retryVars, cleanupVars, foldVars, dispatchVars, staleVars>>
MonTerminate == \E sig \in TermSignals : mon_terminate(sig) /\ UNCHANGED <<pluginVars, collectorVars, reconcileVars, retryVars, cleanupVars, foldVars, dispatchVars, staleVars>>
MonSigusr1 == mon_sigusr1 /\ UNCHANGED <<pluginVars, collectorVars, reconcileVars, retryVars, cleanupVars, foldVars, dispatchVars, staleVars>>
MonBpfError == mon_bpf_error /\ UNCHANGED <<pluginVars, collectorVars, reconcileVars, retryVars, cleanupVars, foldVars, dispatchVars, staleVars>>
MonWriterDone == mon_writer_done /\ UNCHANGED <<pluginVars, collectorVars, reconcileVars, retryVars, cleanupVars, foldVars, dispatchVars, staleVars>>
MonJoined == mon_joined /\ UNCHANGED <<pluginVars, collectorVars, reconcileVars, retryVars, cleanupVars, foldVars, dispatchVars, staleVars>>
BpfShutdownCheck == bpf_shutdown_check /\ UNCHANGED <<pluginVars, collectorVars, reconcileVars, retryVars, cleanupVars, foldVars, dispatchVars, staleVars>>
BpfPollEvents == \E completes \in BOOLEAN : bpf_poll_events(completes) /\ UNCHANGED <<pluginVars, collectorVars, reconcileVars, retryVars, cleanupVars, foldVars, dispatchVars, staleVars>>
BpfPollError == bpf_poll_error /\ UNCHANGED <<pluginVars, collectorVars, reconcileVars, retryVars, cleanupVars, foldVars, dispatchVars, staleVars>>
MainReturn == main_return /\ UNCHANGED <<pluginVars, collectorVars, reconcileVars, retryVars, cleanupVars, foldVars, dispatchVars, staleVars>>
WrTimeslot ==
    \E converted \in BOOLEAN, wrote \in BOOLEAN :
        wr_timeslot(converted, wrote) /\ UNCHANGED <<pluginVars, collectorVars, reconcileVars, retryVars, cleanupVars, foldVars, dispatchVars, staleVars>>
WrClosed == \E closed_ok \in BOOLEAN : wr_closed(closed_ok) /\ UNCHANGED <<pluginVars, collectorVars, reconcileVars, retryVars, cleanupVars, foldVars, dispatchVars, staleVars>>
WrRotate == \E rotated \in BOOLEAN : wr_rotate(rotated) /\ UNCHANGED <<pluginVars, collectorVars, reconcileVars, retryVars, cleanupVars, foldVars, dispatchVars, staleVars>>
SignalArrives == \E sig \in Signals : signal_arrives(sig) /\ UNCHANGED <<pluginVars, collectorVars, reconcileVars, retryVars, cleanupVars, foldVars, dispatchVars, staleVars>>
Tick == tick /\ UNCHANGED <<pluginVars, collectorVars, reconcileVars, retryVars, cleanupVars, foldVars, dispatchVars, staleVars>>

NextShutdown ==
    \/ MonStart
    \/ MonTimeout
    \/ MonTerminate
    \/ MonSigusr1
    \/ MonBpfError
    \/ MonWriterDone
    \/ MonJoined
    \/ BpfShutdownCheck
    \/ BpfPollEvents
    \/ BpfPollError
    \/ MainReturn
    \/ WrTimeslot
    \/ WrClosed
    \/ WrRotate
    \/ SignalArrives
    \/ Tick

RgCall == rg_call /\ UNCHANGED <<pluginVars, collectorVars, foldVars, dispatchVars, staleVars, shutdownVars, retryVars, cleanupVars>>
RgResolve == rg_resolve /\ UNCHANGED <<pluginVars, collectorVars, foldVars, dispatchVars, staleVars, shutdownVars, retryVars, cleanupVars>>
RgWrite == rg_write /\ UNCHANGED <<pluginVars, collectorVars, foldVars, dispatchVars, staleVars, shutdownVars, retryVars, cleanupVars>>
RgCheck == rg_check /\ UNCHANGED <<pluginVars, collectorVars, foldVars, dispatchVars, staleVars, shutdownVars, retryVars, cleanupVars>>
RgReturn == rg_return /\ UNCHANGED <<pluginVars, collectorVars, foldVars, dispatchVars, staleVars, shutdownVars, retryVars, cleanupVars>>

NextReconcile ==
    \/ RgCall
    \/ RgResolve
    \/ RgWrite
    \/ RgCheck
    \/ RgReturn

\* One pass of retry_all_once: the runtime registers pods and containers,
\* then the pass runs while the runtime removes pods.
RaSnapshot == ra_snapshot /\ UNCHANGED <<collectorVars, reconcileVars, foldVars, dispatchVars, staleVars, shutdownVars, cleanupVars>>
RaGroupBegin == ra_rgc_begin /\ UNCHANGED <<collectorVars, reconcileVars, foldVars, dispatchVars, staleVars, shutdownVars, cleanupVars>>
RaGroupCreate == ra_rgc_create /\ UNCHANGED <<collectorVars, reconcileVars, foldVars, dispatchVars, staleVars, shutdownVars, cleanupVars>>
RaGroupCommit == ra_rgc_commit /\ UNCHANGED <<collectorVars, reconcileVars, foldVars, dispatchVars, staleVars, shutdownVars, cleanupVars>>
RaGroupCleanup == ra_rgc_cleanup /\ UNCHANGED <<collectorVars, reconcileVars, foldVars, dispatchVars, staleVars, shutdownVars, cleanupVars>>
RaContainerBegin == ra_rcr_begin /\ UNCHANGED <<collectorVars, reconcileVars, foldVars, dispatchVars, staleVars, shutdownVars, cleanupVars>>
RaContainerCommit == ra_rcr_commit /\ UNCHANGED <<collectorVars, reconcileVars, foldVars, dispatchVars, staleVars, shutdownVars, cleanupVars>>
RaReturn == ra_return /\ UNCHANGED <<collectorVars, reconcileVars, foldVars, dispatchVars, staleVars, shutdownVars, cleanupVars>>
RaRunPodSandbox ==
    \E u \in RaPodUids :
        ra.pc = "idle" /\ handle_new_pod(u) /\ UNCHANGED <<collectorVars, reconcileVars, foldVars, dispatchVars, staleVars, shutdownVars, retryVars, cleanupVars>>
RaCreateContainer ==
    \E c \in ContainerIds :
        ra.pc = "idle" /\ hnc_begin(c) /\ UNCHANGED <<collectorVars, reconcileVars, foldVars, dispatchVars, staleVars, shutdownVars, retryVars, cleanupVars>>
RaCreateContainerCommit ==
    \E c \in ContainerIds :
        hnc_commit(c) /\ UNCHANGED <<collectorVars, reconcileVars, foldVars, dispatchVars, staleVars, shutdownVars, retryVars, cleanupVars>>
RaRemovePodSandbox ==
    \E u \in RaPodUids :
        RaInPass /\ remove_pod_sandbox(u) /\ UNCHANGED <<collectorVars, reconcileVars, foldVars, dispatchVars, staleVars, shutdownVars, retryVars, cleanupVars>>
RaRemovePodDelete ==
    \E u \in RaPodUids :
        remove_pod_delete(u) /\ UNCHANGED <<collectorVars, reconcileVars, foldVars, dispatchVars, staleVars, shutdownVars, retryVars, cleanupVars>>

NextRetryAll ==
    \/ RaSnapshot
    \/ RaGroupBegin
    \/ RaGroupCreate
    \/ RaGroupCommit
    \/ RaGroupCleanup
    \/ RaContainerBegin
    \/ RaContainerCommit
    \/ RaReturn
    \/ RaRunPodSandbox
    \/ RaCreateContainer
    \/ RaCreateContainerCommit
    \/ RaRemovePodSandbox
    \/ RaRemovePodDelete
    \/ EventRecv

\* The container callbacks and retry_container_reconcile, with the pod
\* callbacks around them
NextContainers ==
    \/ RunPodSandbox
    \/ CreateContainer
    \/ CreateContainerCommit
    \/ UpdateContainer
    \/ RemoveContainer
    \/ RemovePodSandbox
    \/ RemovePodDelete
    \/ RetryContainerReconcile
    \/ RetryContainerCommit
    \/ EventRecv

\* The startup synchronize and the subscriber of its events
ResctrlMounted == resctrl_mounted /\ UNCHANGED <<collectorVars, reconcileVars, foldVars, dispatchVars, staleVars, shutdownVars, retryVars>>
SyCleanup == sy_cleanup /\ UNCHANGED <<collectorVars, reconcileVars, foldVars, dispatchVars, staleVars, shutdownVars, retryVars>>
SyPod == sy_pod /\ UNCHANGED <<collectorVars, reconcileVars, foldVars, dispatchVars, staleVars, shutdownVars, retryVars>>
SyContainer == sy_container /\ UNCHANGED <<collectorVars, reconcileVars, foldVars, dispatchVars, staleVars, shutdownVars, retryVars>>
SyContainerCommit == sy_container_commit /\ UNCHANGED <<collectorVars, reconcileVars, foldVars, dispatchVars, staleVars, shutdownVars, retryVars>>
SyReturn == sy_return /\ UNCHANGED <<collectorVars, reconcileVars, foldVars, dispatchVars, staleVars, shutdownVars, retryVars>>

NextCleanup ==
    \/ ResctrlMounted
    \/ SyCleanup
    \/ SyPod
    \/ SyContainer
    \/ SyContainerCommit
    \/ SyReturn
    \/ EventRecv

\* The timeslot pipeline with the boundary dispatched subscriber by subscriber
DpTaskMetadata ==
    \E pid \in Pids, comm \in Comms :
        dp_task_metadata(pid, comm) /\ UNCHANGED <<pluginVars, reconcileVars, retryVars, cleanupVars, foldVars, shutdownVars, staleVars>>
DpTaskFree == \E pid \in Pids : dp_task_free(pid) /\ UNCHANGED <<pluginVars, reconcileVars, retryVars, cleanupVars, foldVars, shutdownVars, staleVars>>
DpPerfMeasurement ==
    \E pid \in Pids, cycles \in CyclesDeltas :
        dp_perf_measurement(pid, cycles) /\ UNCHANGED <<pluginVars, reconcileVars, retryVars, cleanupVars, foldVars, shutdownVars, staleVars>>
DpNewTimeslot ==
    \E new \in 1..MaxTs, report_due \in BOOLEAN :
        /\ new > current_timeslot.timestamp
        /\ \E old \in {current_timeslot.timestamp, new - 1} :
             dp_new_timeslot(old, new, report_due)
        /\ UNCHANGED <<pluginVars, reconcileVars, retryVars, cleanupVars, foldVars, shutdownVars, staleVars>>
DpTaskCollectionFlush == dp_task_collection_flush /\ UNCHANGED <<pluginVars, reconcileVars, retryVars, cleanupVars, foldVars, shutdownVars, staleVars>>
DpWriterRecv == dp_writer_recv /\ UNCHANGED <<pluginVars, reconcileVars, retryVars, cleanupVars, foldVars, shutdownVars, staleVars>>

NextDispatch ==
    \/ DpTaskMetadata
    \/ DpTaskFree
    \/ DpPerfMeasurement
    \/ DpNewTimeslot
    \/ DpTaskCollectionFlush
    \/ DpWriterRecv

\* The container callbacks with the record of removals
StRunPodSandbox ==
    \E u \in PodUids : handle_new_pod(u) /\ UNCHANGED <<collectorVars, reconcileVars, retryVars, cleanupVars, foldVars, shutdownVars, dispatchVars, staleVars>>
StCreateContainer ==
    \E c \in ContainerIds : st_create_container(c) /\ UNCHANGED <<collectorVars, reconcileVars, retryVars, cleanupVars, foldVars, shutdownVars, dispatchVars>>
StCreateContainerCommit ==
    \E c \in ContainerIds : st_create_container_commit(c) /\ UNCHANGED <<collectorVars, reconcileVars, retryVars, cleanupVars, foldVars, shutdownVars, dispatchVars>>
StRemoveContainer ==
    \E c \in ContainerIds : st_remove_container(c) /\ UNCHANGED <<collectorVars, reconcileVars, retryVars, cleanupVars, foldVars, shutdownVars, dispatchVars>>
StRemovePodSandbox ==
    \E u \in PodUids : remove_pod_sandbox(u) /\ UNCHANGED <<collectorVars, reconcileVars, retryVars, cleanupVars, foldVars, shutdownVars, dispatchVars, staleVars>>
StRemovePodDelete ==
    \E u \in PodUids : remove_pod_delete(u) /\ UNCHANGED <<collectorVars, reconcileVars, retryVars, cleanupVars, foldVars, shutdownVars, dispatchVars, staleVars>>
StEventRecv == event_recv /\ UNCHANGED <<collectorVars, reconcileVars, retryVars, cleanupVars, foldVars, shutdownVars, dispatchVars, staleVars>>

NextStale ==
    \/ StRunPodSandbox
    \/ StCreateContainer
    \/ StCreateContainerCommit
    \/ StRemoveContainer
    \/ StRemovePodSandbox
    \/ StRemovePodDelete
    \/ StEventRecv

vars == <<pluginVars, collectorVars, reconcileVars, retryVars, cleanupVars, foldVars,
         shutdownVars, dispatchVars, staleVars>>

Init == InitPlugin /\ InitCollector /\ InitReconcile /\ InitRetryAll /\ InitCleanup /\ InitFold
        /\ InitShutdown /\ InitDispatch /\ InitStale
Next == NextPlugin
Spec == Init /\ [][Next]_vars
SpecCollector == Init /\ [][NextCollector]_vars
SpecReconcile == Init /\ [][NextReconcile]_vars
SpecRetryAll == Init /\ [][NextRetryAll]_vars
SpecCleanup == Init /\ [][NextCleanup]_vars
SpecContainers == Init /\ [][NextContainers]_vars
SpecFold == Init /\ [][NextFold]_vars
SpecShutdown == Init /\ [][NextShutdown]_vars
SpecDispatch == Init /\ [][NextDispatch]_vars
SpecStale == Init /\ [][NextStale]_vars

\* The runtime schedules a task that can take a step, select! picks its
\* ready branches in random order, the main thread runs its loop, and time
\* passes.  Signals, polling errors and completed timeslots may or may not
\* come.
FairShutdown ==
    /\ WF_vars(MonStart)
    /\ WF_vars(MonTimeout)
    /\ WF_vars(MonTerminate)
    /\ WF_vars(MonSigusr1)
    /\ WF_vars(MonBpfError)
    /\ WF_vars(MonWriterDone)
    /\ WF_vars(MonJoined)
    /\ WF_vars(BpfShutdownCheck)
    /\ WF_vars(BpfPollEvents \/ BpfPollError)
    /\ WF_vars(MainReturn)
    /\ WF_vars(WrTimeslot)
    /\ WF_vars(WrClosed)
    /\ WF_vars(WrRotate)
    /\ WF_vars(Tick)

SpecShutdownLive == SpecShutdown /\ FairShutdown

(***************************************************************************)
(* Properties of the plugin, checked under Spec                            *)
(***************************************************************************)
\* C1: every tracked pod has reconciled_containers <= total_containers, and
\* so has every emitted AddOrUpdate, under any interleaving of the operations
C1_ReconciledAtMostTotal ==
    /\ \A u \in DOMAIN pods :
         pods[u].reconciled_containers <= pods[u].total_containers
    /\ out.ev.kind = "AddOrUpdate"
         => out.ev.reconciled_containers <= out.ev.total_containers

\* C2: a tracked pod whose group_state is Failed has reconciled_containers = 0
C2_FailedHasNoReconciled ==
    \A u \in DOMAIN pods :
        pods[u].group_state = Failed => pods[u].reconciled_containers = 0

\* C3: every Reconciled container has its pod in the pods map, with
\* group_state Exists(_)
C3_ReconciledHasGroup ==
    \A c \in DOMAIN containers :
        containers[c].state = "Reconciled"
            => /\ Tracked(containers[c].pod_uid)
               /\ pods[containers[c].pod_uid].group_state.tag = "Exists"

\* C4: when the latest event of a pod is Removed, the next AddOrUpdate for it
\* is emitted by handle_new_pod and by nothing else; an operation that was in
\* flight when the pod was removed emits nothing for it
C4_NoUpdateAfterRemoved ==
    [][ (/\ out'.by # "none"
         /\ out'.ev.kind = "AddOrUpdate"
         /\ lastEv[out'.ev.pod_uid] = Removed(out'.ev.pod_uid))
            => out'.by = "handle_new_pod" ]_vars

\* an in-flight handle_new_container committed after the removal of its pod
C4_Witness ==
    /\ lastEv["u1"] = Removed("u1")
    /\ ~Tracked("u1")
    /\ Known("c1") /\ containers["c1"].state # "NoPod"
    /\ out.by = "none"

LexLeq(a, b) ==
    \/ a.total_containers < b.total_containers
    \/ /\ a.total_containers = b.total_containers
       /\ a.reconciled_containers <= b.reconciled_containers

\* C5 as stated: every AddOrUpdate of a pod carries counts that are not
\* below those of the pod's previous AddOrUpdate, unless a Removed came
\* between them
C5_CountsNeverDecrease ==
    [][ (/\ out'.by # "none"
         /\ out'.ev.kind = "AddOrUpdate"
         /\ lastEv[out'.ev.pod_uid].kind = "AddOrUpdate")
            => LexLeq(lastEv[out'.ev.pod_uid], out'.ev) ]_vars

\* C5: the counts of a pod's AddOrUpdate events do not decrease until its
\* Removed, except in the AddOrUpdate that REMOVE_CONTAINER emits
C5_CountsDecreaseOnlyOnRemove ==
    [][ (/\ out'.by \notin {"none", "remove_container"}
         /\ out'.ev.kind = "AddOrUpdate"
         /\ lastEv[out'.ev.pod_uid].kind = "AddOrUpdate")
            => LexLeq(lastEv[out'.ev.pod_uid], out'.ev) ]_vars

\* a retry reconciled a container of a pod with two containers
C5_Witness ==
    /\ out.by = "retry_container_reconcile"
    /\ out.ev.total_containers = 2
    /\ out.ev.reconciled_containers >= 1

PodEquals(ev, ps) ==
    /\ ev.kind = "AddOrUpdate"
    /\ ev.group_state = ps.group_state
    /\ ev.total_containers = ps.total_containers
    /\ ev.reconciled_containers = ps.reconciled_containers

\* C6: a step that creates or changes a tracked pod's state emits, in the
\* same critical section, an AddOrUpdate with the committed values; between
\* critical sections the latest event of a tracked pod equals its state
C6_EventsInCommitOrder ==
    /\ [](\A u \in DOMAIN pods : PodEquals(lastEv[u], pods[u]))
    /\ [][ \A u \in DOMAIN pods' :
             (u \notin DOMAIN pods \/ pods'[u] # pods[u])
                => /\ out'.by # "none"
                   /\ out'.ev.pod_uid = u
                   /\ PodEquals(out'.ev, pods'[u]) ]_vars

\* retry_group_creation moved a pod with a container from Failed to Exists
C6_Witness ==
    /\ out.by = "retry_group_creation"
    /\ Tracked("u1")
    /\ pods["u1"].total_containers > 0
    /\ lastEv["u1"].group_state.tag = "Exists"

\* C10: emit_event never blocks: with a full channel the event is dropped and
\* dropped_events grows by one; every attempt is either accepted or counted
\* as dropped; dropped_events never decreases; the state change a dropped
\* event reports stays committed
C10_EmitNeverBlocks ==
    /\ [](chanLen = EvChanCap /\ dropped_events < MaxDropped
            => ENABLED RunPodSandbox)
    /\ [][ /\ dropped_events' >= dropped_events
           /\ out'.by # "none"
                => \/ /\ chanLen < EvChanCap
                      /\ chanLen' = chanLen + 1
                      /\ dropped_events' = dropped_events
                   \/ /\ chanLen = EvChanCap
                      /\ chanLen' = chanLen
                      /\ dropped_events' = dropped_events + 1
           /\ out'.by = "none"
                => dropped_events' = dropped_events /\ chanLen' <= chanLen
           /\ out'.ev.kind = "AddOrUpdate"
                => /\ out'.ev.pod_uid \in DOMAIN pods'
                   /\ PodEquals(out'.ev, pods'[out'.ev.pod_uid]) ]_vars

\* an AddOrUpdate that reports a new container was dropped
C10_Witness ==
    /\ out.by = "handle_new_container"
    /\ ~out.sent
    /\ dropped_events > 0
    /\ Tracked("u1") /\ pods["u1"].total_containers > 0

(***************************************************************************)
(* Properties of the timeslot pipeline, checked under SpecCollector        *)
(***************************************************************************)
\* C7: after TASK_METADATA(P, meta), lookup(P) returns meta until the next
\* timeslot boundary, whatever TASK_FREE(P) came in between; a measurement
\* for P processed in that interval is folded with that metadata
C7_DeferredRemovalSound ==
    /\ \A p \in Pids :
         seenMeta[p] # None => tc_lookup(task_collection, p) = seenMeta[p]
    /\ (lastMsg.type = "PERF_MEASUREMENT" /\ seenMeta[lastMsg.pid] # None)
         => /\ lastMsg.metadata = seenMeta[lastMsg.pid]
            /\ current_timeslot.entries[lastMsg.pid].metadata
                 = seenMeta[lastMsg.pid]

\* a measurement processed after TASK_FREE and before the boundary
C7_Witness ==
    /\ lastMsg.type = "PERF_MEASUREMENT"
    /\ lastMsg.pid \in task_collection.pending
    /\ lastMsg.metadata # None
    /\ lastMsg.pid \in DOMAIN current_timeslot.entries

\* C8: a TIMESLOT(old, new) step replaces current_timeslot by an empty one
\* keyed by new and hands the completed one to the callback once; a
\* PERF_MEASUREMENT changes only current_timeslot, and a handed-off timeslot
\* never changes
C8_HandOffOnce ==
    [][ /\ lastMsg'.type = "TIMESLOT"
             => /\ current_timeslot' = TimeslotDataNew(lastMsg'.new)
                /\ lastMsg'.completed = current_timeslot
                /\ \/ tsChan' = Append(tsChan, current_timeslot)
                   \/ Len(tsChan) = TsChanCap /\ tsChan' = tsChan
        /\ lastMsg'.type = "PERF_MEASUREMENT"
             => /\ tsChan' = tsChan
                /\ current_timeslot'.timestamp = current_timeslot.timestamp
                /\ lastMsg'.pid \in DOMAIN current_timeslot'.entries
        /\ lastMsg'.type \notin {"TIMESLOT", "PERF_MEASUREMENT"}
             => \/ tsChan' = tsChan
                \/ lastMsg'.type = "writer_recv" /\ tsChan' = Tail(tsChan) ]_vars

\* a measurement folded into the new timeslot while the completed one, with
\* its own entries, waits in the channel
C8_Witness ==
    /\ lastMsg.type = "PERF_MEASUREMENT"
    /\ Len(tsChan) > 0
    /\ DOMAIN tsChan[1].entries # {}
    /\ current_timeslot.timestamp > tsChan[1].timestamp
    /\ DOMAIN current_timeslot.entries # {}

\* C9: with a full channel every BPF message is still processed; a TIMESLOT
\* step then drops the completed timeslot, counts one more failure (the
\* count is reset when it is reported) and starts the new timeslot
C9_ProducerNeverBlocks ==
    /\ []((Len(tsChan) = TsChanCap /\ current_timeslot.timestamp < MaxTs)
            => ENABLED TimeslotMsg)
    /\ [](Len(tsChan) = TsChanCap
            => ENABLED TaskMetadataMsg /\ ENABLED TaskFreeMsg)
    /\ [][ (lastMsg'.type = "TIMESLOT" /\ Len(tsChan) = TsChanCap)
             => /\ tsChan' = tsChan
                /\ current_timeslot' = TimeslotDataNew(lastMsg'.new)
                /\ \/ /\ lastMsg'.reported = 0
                      /\ error_counter' = error_counter + 1
                   \/ /\ lastMsg'.reported = error_counter + 1
                      /\ error_counter' = 0 ]_vars

\* a completed timeslot with entries was dropped and counted
C9_Witness ==
    /\ lastMsg.type = "TIMESLOT"
    /\ error_counter > 0
    /\ Len(tsChan) = TsChanCap
    /\ DOMAIN lastMsg.completed.entries # {}
    /\ \A i \in 1..Len(tsChan) : tsChan[i] # lastMsg.completed


(***************************************************************************)
(* Properties of reconcile_group, checked under SpecReconcile              *)
(***************************************************************************)
RgConverged ==
    /\ rg.missing = 0
    /\ new_state_of(rg.missing) = "Reconciled"

\* C11 as stated: a call whose resolver stabilises within K snapshots and
\* whose max_passes is at least K+1 returns missing = 0, whatever the writes
\* returned, and the container is recorded Reconciled
C11_ConvergesWhateverTheWrites ==
    (rg.pc = "done" /\ rg.max_passes >= rg.stable_at + 1) => RgConverged

\* C11: the same, for the calls in which no write of a pid of the stable set
\* failed with ESRCH
C11_ConvergesWhenStablePidsAreWritten ==
    (/\ rg.pc = "done"
     /\ rg.max_passes >= rg.stable_at + 1
     /\ rg.gone \cap rg.stable = {})
        => RgConverged

\* a set that grew to two pids was assigned in full, after an ESRCH for a pid
\* that left the set
C11_Witness ==
    /\ rg.pc = "done"
    /\ rg.stable_at = 2 /\ rg.max_passes = 3
    /\ rg.stable = {1, 2}
    /\ rg.gone = {3}
    /\ rg.tasks = {1, 2}
    /\ rg.missing = 0

(***************************************************************************)
(* Properties of the retry operations, checked under Spec                  *)
(***************************************************************************)
RcrTask(u, c) == Task("rcr", "reconcile", u, c)
RcrCommits(u, c) ==
    InFlight(RcrTask(u, c)) /\ inflight' = inflight (-) SetToBag({RcrTask(u, c)})

\* C12 as stated: a retry_container_reconcile on a Reconciled container of a
\* tracked pod returns Reconciled whatever reconcile_group returned
C12_ReturnsReconciledWhateverTheOutcome ==
    \A c \in ContainerIds, u \in PodUids :
        (/\ InFlight(RcrTask(u, c))
         /\ Known(c) /\ containers[c].state = "Reconciled"
         /\ Tracked(u))
            => \A res \in ReconcileOutcomes :
                   rcr_commit_result(c, u, res) = Ok("Reconciled")

\* C12: a retry_container_reconcile that finds the container Reconciled
\* when it retakes the mutex emits nothing and changes neither the container
\* nor the pod counters; it returns Reconciled when reconcile_group
\* succeeded and the pod is tracked, and the error otherwise
C12_NoRegression ==
    /\ [][ \A c \in ContainerIds, u \in PodUids :
             (/\ RcrCommits(u, c)
              /\ Known(c) /\ containers[c].state = "Reconciled")
                => /\ out'.by = "none"
                   /\ containers' = containers
                   /\ pods' = pods ]_vars
    /\ [](\A c \in ContainerIds, u \in PodUids :
            (/\ InFlight(RcrTask(u, c))
             /\ Known(c) /\ containers[c].state = "Reconciled")
                => \A res \in ReconcileOutcomes :
                     rcr_commit_result(c, u, res) =
                         IF res = "err" THEN Err("Resctrl")
                         ELSE IF ~Tracked(u) THEN Err("PodNotFound")
                         ELSE Ok("Reconciled"))

\* a retry is in flight for a Reconciled container that is counted
C12_Witness ==
    /\ InFlight(RcrTask("u1", "c1"))
    /\ Known("c1") /\ containers["c1"].state = "Reconciled"
    /\ Tracked("u1") /\ pods["u1"].reconciled_containers = 1
\* C13: within one pass of retry_all_once, after the first
\* retry_group_creation that fails with Capacity no further create_group
\* attempt is made for the remaining Failed pods of the snapshot, and the pass
\* still retries the Partial containers and returns Ok.
C13_EarlyStopThenOk ==
    RaInPass =>
        /\ ~ra.late_creates
        /\ (ra.pc = "done" /\ ra.capacity) =>
               (ra.snapshot \subseteq ra.retried /\ ra.result = Ok(""))

\* C13 (amended): as above, except that the pass returns Ok only when no
\* container reconcile fails with a resctrl error; such an error ends the pass
\* and is returned.
C13_EarlyStopThenContainers ==
    RaInPass =>
        /\ ~ra.late_creates
        /\ ra.capacity => ra.pc \in {"containers", "rcr_commit", "done"}
        /\ (ra.pc = "done" /\ ra.capacity) =>
               \/ ra.snapshot \subseteq ra.retried /\ ra.result = Ok("")
               \/ ra.retried # {} /\ ra.result = Err("Resctrl")

\* a pass that met Capacity at the first of two Failed pods, retried both
\* Partial containers and returned Ok
C13_Witness ==
    /\ RaInPass
    /\ ra.pc = "done"
    /\ ra.capacity
    /\ Len(ra.failed_pods) = 2
    /\ Cardinality(ra.retried) = 2
    /\ ra.result = Ok("")

\* C14: in every pass of retry_all_once every container that was Partial in
\* the snapshot and is still tracked gets a retry_container_reconcile attempt,
\* whatever the group-creation retries and the other reconciles returned.
C14_EveryPartialContainerRetried ==
    (RaInPass /\ ra.pc = "done") =>
        \A c \in ra.snapshot : Known(c) => c \in ra.retried

\* C14 (amended): a pass that returns Ok has made a retry_container_reconcile
\* attempt for every container of the snapshot; a pass returns an error only
\* when a group-creation retry failed with a resctrl error other than Capacity
\* (no container is retried then) or a container reconcile failed with a
\* resctrl error.
C14_RetriedUnlessResctrlError ==
    (RaInPass /\ ra.pc = "done") =>
        /\ ra.result \in {Ok(""), Err("Io"), Err("Resctrl")}
        /\ ra.result = Ok("") => ra.snapshot \subseteq ra.retried
        /\ ra.result = Err("Io") => ra.retried = {}
        /\ ra.result = Err("Resctrl") => ra.retried # {}

\* a pass that created a group, retried two Partial containers and returned Ok
C14_Witness ==
    /\ RaInPass
    /\ ra.pc = "done"
    /\ ~ra.capacity
    /\ ra.result = Ok("")
    /\ Cardinality(ra.snapshot) = 2
    /\ ra.retried = ra.snapshot
    /\ out.by = "retry_container_reconcile"

RgcCommitTask(u) == Task("rgc", "commit", u, "")
RgcCleanupTask(u) == Task("rgc", "cleanup", u, "")
\* the step that takes task t out of the operations in flight
Leaves(t) ==
    inflight' # inflight /\ CopiesIn(t, inflight') < CopiesIn(t, inflight)

RgcCreateTask(u) == Task("rgc", "create", u, "")

\* C16: while a pod stays tracked its group_state changes only from Failed to
\* Exists(path), and only when retry_group_creation retakes the mutex after a
\* successful create_group; a repeated handle_new_pod changes no pod state; a
\* retry_group_creation whose create_group fails returns that error with its
\* kind, changes no pod state and no group, and emits no event.
C16_FailedToExistsOnlyByRetry ==
    /\ [][ \A u \in PodUids :
             (pods' # pods /\ Tracked(u) /\ u \in DOMAIN pods'
                /\ pods'[u].group_state # pods[u].group_state)
                => /\ pods[u].group_state = Failed
                   /\ pods'[u].group_state = Exists(GroupPath(u))
                   /\ Leaves(RgcCommitTask(u))
                   /\ out'.by = "retry_group_creation" ]_vars
    /\ [][ \A u \in PodUids :
             (out'.by = "handle_new_pod" /\ out'.ev.pod_uid = u /\ Tracked(u))
                => pods' = pods ]_vars
    /\ [][ \A u \in PodUids :
             (/\ Leaves(RgcCreateTask(u))
              /\ CopiesIn(RgcCommitTask(u), inflight') =
                     CopiesIn(RgcCommitTask(u), inflight))
                => /\ pods' = pods
                   /\ groups' = groups
                   /\ out'.by = "none"
                   /\ rgc_create_result("capacity") = Err("Capacity")
                   /\ rgc_create_result("io") = Err("Io") ]_vars

\* a retry has just moved a tracked pod from Failed to Exists
C16_Witness ==
    /\ out.by = "retry_group_creation"
    /\ Tracked("u1")
    /\ pods["u1"].group_state = Exists(GroupPath("u1"))
    /\ out.ev.group_state = Exists(GroupPath("u1"))

\* C17: a create_container for a container id that is already tracked changes
\* no pod and no container, starts no reconcile and emits no event; an
\* update_container changes nothing and emits nothing.
C17_DuplicateCreateIgnored ==
    /\ [][ \A c \in ContainerIds :
             (Known(c) /\ hnc_begin(c))
                => /\ pods' = pods
                   /\ containers' = containers
                   /\ groups' = groups
                   /\ inflight' = inflight
                   /\ out'.by = "none"
                   /\ UNCHANGED <<chanLen, dropped_events, lastEv>> ]_vars
    /\ [][ (\E c \in ContainerIds : update_container(c))
                => /\ UNCHANGED <<pods, containers, groups, inflight>>
                   /\ out'.by = "none"
                   /\ UNCHANGED <<chanLen, dropped_events, lastEv>> ]_vars

\* a Partial container of a pod with a group has been sent again: nothing was
\* emitted and no reconcile is in flight
C17_Witness ==
    /\ Known("c1") /\ containers["c1"].state = "Partial"
    /\ Tracked("u1") /\ pods["u1"].group_state # Failed
    /\ pods["u1"].total_containers = 1
    /\ inflight = EmptyBag
    /\ out.by = "none"

\* C18: a container first observed while its pod is untracked is recorded as
\* NoPod without a counter change or an event; a REMOVE_CONTAINER of a NoPod
\* container decrements no counter; a retry_container_reconcile of a NoPod
\* container returns NoPod, starts no reconcile and changes no state.
C18_NoPodIsInert ==
    /\ [][ \A c \in ContainerIds :
             (~Known(c) /\ ~Tracked(PodOf(c)) /\ hnc_begin(c))
                => /\ c \in DOMAIN containers'
                   /\ containers'[c].state = "NoPod"
                   /\ pods' = pods
                   /\ inflight' = inflight
                   /\ out'.by = "none" ]_vars
    /\ [][ \A c \in ContainerIds :
             (Known(c) /\ containers[c].state = "NoPod" /\ remove_container(c))
                => /\ c \notin DOMAIN containers'
                   /\ \A u \in DOMAIN pods :
                        /\ u \in DOMAIN pods'
                        /\ pods'[u].total_containers = pods[u].total_containers
                        /\ pods'[u].reconciled_containers =
                               pods[u].reconciled_containers ]_vars
    /\ [][ \A c \in ContainerIds :
             (Known(c) /\ containers[c].state = "NoPod" /\ rcr_begin(c))
                => /\ rcr_begin_result(c) = Ok("NoPod")
                   /\ UNCHANGED <<pods, containers, groups, inflight>>
                   /\ out'.by = "none" ]_vars

\* a NoPod container beside a counted container of the same pod, registered
\* since
C18_Witness ==
    /\ Known("c1") /\ containers["c1"].state = "NoPod"
    /\ Tracked("u1") /\ pods["u1"].total_containers = 1
    /\ Known("c2") /\ containers["c2"].state # "NoPod"

\* C19: a create event re-sent for a container recorded as NoPod, after its
\* pod has been registered, takes the container out of NoPod: the container is
\* counted as Partial at once, or its reconcile against the pod's group starts.
C19_ResentCreateLeavesNoPod ==
    [][ \A c \in ContainerIds :
          (/\ Known(c) /\ containers[c].state = "NoPod"
           /\ Tracked(PodOf(c))
           /\ hnc_begin(c))
             => \/ /\ containers'[c].state = "Partial"
                   /\ pods'[PodOf(c)].total_containers =
                          pods[PodOf(c)].total_containers + 1
                \/ CopiesIn(HncTask(PodOf(c), c), inflight') >
                      CopiesIn(HncTask(PodOf(c), c), inflight) ]_vars

\* name is the group prefix followed by anything
PrefixNamed(name) == \E k \in 0..Len(name) : SubSeq(name, 1, k) = group_prefix
\* the entries a complete startup cleanup leaves
AfterCleanup(d) ==
    {e \in d : ~(e.kind = "dir" /\ PrefixNamed(e.name))}

HasLiveGroup(u) ==
    /\ Tracked(u)
    /\ pods[u].group_state = Exists(GroupPath(u))
    /\ GroupPath(u) \in groups

C21_LaterSynchronizeKeepsGroups ==
    [][\A u \in PodUids :
          (HasLiveGroup(u) /\ synchronize_startup) => GroupPath(u) \in groups']_vars


(***************************************************************************)
(* C22: synchronize calls handle_new_pod for every pod of the request and  *)
(* then handle_new_container for every container of the request: when it   *)
(* returns, no container of the request has been skipped, so each of them  *)
(* has an entry in the container map (nothing removes one meanwhile).      *)
(***************************************************************************)
C22_NoContainerSkipped ==
    sy.pc = "done" => \A c \in sy.req_containers : Known(c)


(***************************************************************************)
(* C23: REMOVE_POD_SANDBOX removes, in one critical section, the pod entry *)
(* and every container entry recorded under that pod uid and emits exactly *)
(* one Removed event there, without touching the resctrl tree.             *)
(* delete_group runs only after that critical section, and only when the   *)
(* pod was Exists(path); when it succeeds the group directory is gone, and *)
(* whether it succeeds or fails it changes neither the plugin state nor    *)
(* any event.                                                              *)
(***************************************************************************)
RmPodTask(u) == Task("rmpod", "delete", u, "")

RemovePodSandboxStep(u) ==
    /\ out'.by = "remove_pod_sandbox"
    /\ out'.ev.pod_uid = u

C23_RemovePodSandbox ==
    [][\A u \in PodUids :
          /\ RemovePodSandboxStep(u)
                => /\ out'.ev = Removed(u)
                   /\ lastEv'[u] = Removed(u)
                   /\ chanLen' + dropped_events' = chanLen + dropped_events + 1
                   /\ u \notin DOMAIN pods'
                   /\ \A c \in DOMAIN containers' : containers'[c].pod_uid # u
                   /\ \A c \in DOMAIN containers :
                         containers[c].pod_uid # u
                            => c \in DOMAIN containers' /\ containers'[c] = containers[c]
                   /\ groups' = groups
                   /\ (CopiesIn(RmPodTask(u), inflight') > CopiesIn(RmPodTask(u), inflight))
                         <=> (Tracked(u) /\ pods[u].group_state = Exists(GroupPath(u)))
          /\ (CopiesIn(RmPodTask(u), inflight') > CopiesIn(RmPodTask(u), inflight))
                => RemovePodSandboxStep(u)
          /\ Leaves(RmPodTask(u))
                => /\ UNCHANGED <<pods, containers, chanLen, dropped_events, lastEv>>
                   /\ out' = NoOutput
                   /\ groups' \subseteq groups
                   /\ groups \ groups' \subseteq {GroupPath(u)}
          /\ remove_pod_delete_with(u, TRUE) => GroupPath(u) \notin groups'
          /\ remove_pod_delete_with(u, FALSE) => groups' = groups]_vars

\* a pod with its group and a container is removed, and its delete_group
\* is still to run
C23_Witness ==
    /\ out.by = "remove_pod_sandbox"
    /\ out.ev = Removed("u1")
    /\ InFlight(RmPodTask("u1"))
    /\ GroupPath("u1") \in groups
    /\ pods = <<>>
    /\ containers = <<>>
    /\ lastEv["u1"] = Removed("u1")


(***************************************************************************)
(* C30: handle_new_pod is idempotent on repeated calls: for a pod that is  *)
(* already tracked it creates no group, leaves the pod's group_state and   *)
(* counters and every container entry as they are, and emits one           *)
(* AddOrUpdate that carries the pod's current state and counts.            *)
(***************************************************************************)
C30_HandleNewPodIdempotent ==
    [][\A u \in PodUids :
          (Tracked(u) /\ out'.by = "handle_new_pod" /\ out'.ev.pod_uid = u)
             => /\ UNCHANGED <<pods, containers, groups, inflight>>
                /\ out'.ev = [kind |-> "AddOrUpdate", pod_uid |-> u,
                              group_state |-> pods[u].group_state,
                              total_containers |-> pods[u].total_containers,
                              reconciled_containers |-> pods[u].reconciled_containers]
                /\ lastEv'[u] = out'.ev
                /\ chanLen' + dropped_events' = chanLen + dropped_events + 1]_vars

\* a repeated RUN_POD_SANDBOX for a pod that already counts a container: a
\* first call always emits 0/0
C30_Witness ==
    /\ out.by = "handle_new_pod"
    /\ out.ev.pod_uid = "u1"
    /\ out.ev.total_containers = 1
    /\ Tracked("u1")
    /\ pods["u1"].total_containers = 1


(***************************************************************************)
(* C29: the aggregate of a timeslot depends only on the multiset of        *)
(* PERF_MEASUREMENT records folded into it and on the task-metadata table  *)
(* as it is at the end of the timeslot.  Every state can be the end of the *)
(* timeslot, and the ordering that puts the TASK_METADATA upserts first    *)
(* gives each row the table's entry, so in every state the row of a pid    *)
(* holds the sum of its records and the table's current entry.             *)
(***************************************************************************)
RowIsSumOfRecords ==
    /\ DOMAIN current_timeslot.entries = {r.pid : r \in BagToSet(folded)}
    /\ \A pid \in DOMAIN current_timeslot.entries :
          current_timeslot.entries[pid].cycles = CyclesOf(folded, pid)

WriterClosedPath == wr.pc = "done" /\ wr.result \in {"ok", "close_err"}

WriterFailed == wr.pc = "done" /\ wr.result \in {"convert_err", "write_err"}
BpfLoopRuns == main_pc \in {"polling", "checked"}

C25_WriterFailureStopsPolling == WriterFailed ~> ~BpfLoopRuns

(***************************************************************************)
(* C26: during operation shutdown is initiated only by SIGTERM or SIGINT,  *)
(* by the duration timeout or by a writer-fatal error: whenever the        *)
(* monitoring loop exits or the BPF polling loop stops, one of these is    *)
(* the cause.                                                              *)
(***************************************************************************)
MonLoopExits == mon.pc = "select" /\ mon'.pc # "select"
BpfLoopStops == BpfLoopRuns /\ main_pc' = "joining"

CauseHolds(cause) ==
    \/ cause \in TermSignals /\ cause \in env.signals
    \/ cause = "timeout" /\ TimeoutElapsed
    \/ cause = "bpf_error" /\ chans.bpf_error = "sent"
    \/ cause = "writer_done" /\ wr.pc = "done"

C26_OnlySignalTimeoutWriterFatal ==
    [][/\ MonLoopExits
            => /\ CauseHolds(mon'.cause)
               /\ \/ mon'.cause \in TermSignals \cup {"timeout"}
                  \/ mon'.cause = "writer_done" /\ WriterFailed
       /\ BpfLoopStops
            => /\ chans.shutdown = "sent"
               /\ \/ mon.cause \in TermSignals \cup {"timeout"}
                  \/ mon.cause = "writer_done" /\ WriterFailed]_vars

\* C26, amended: shutdown is initiated only by SIGTERM or SIGINT, by the
\* duration timeout, by a BPF polling error or by the end of the writer
\* task: the monitoring loop exits only on one of these, and the polling
\* loop stops only when its own poll fails or after the monitoring task
\* has sent the shutdown message for one of these causes.  SIGUSR1, a
\* dropped timeslot and a failed rotate are none of them.
C26_ShutdownCauses ==
    [][/\ MonLoopExits
            => /\ CauseHolds(mon'.cause)
               /\ chans'.shutdown = "sent"
       /\ BpfLoopStops
            => \/ /\ main_pc = "checked"
                  /\ chans'.bpf_error = OneshotSend(chans.bpf_error)
               \/ /\ main_pc = "polling"
                  /\ chans.shutdown = "sent"
                  /\ mon.cause \in TermSignals \cup {"timeout", "bpf_error", "writer_done"}
       /\ (chans'.shutdown = "sent" /\ chans.shutdown # "sent") => MonLoopExits
       /\ (chans'.rotate < chans.rotate \/ env'.slots # env.slots
              \/ "SIGUSR1" \in env.signals \ env'.signals)
            => /\ mon'.pc = mon.pc
               /\ chans'.shutdown = chans.shutdown
               /\ BpfLoopRuns => BpfLoopRuns']_vars

\* a rotate failed and a timeslot was dropped while the loops went on, and
\* then a BPF polling error ended the run
C26_Witness ==
    /\ mon.cause = "bpf_error"
    /\ main_pc = "returned"
    /\ wr.rotate_failed
    /\ env.slots > Len(chans.accepted)

(***************************************************************************)
(* C27: the termination of any one long-lived task (the monitoring task    *)
(* for any reason, the writer task, the BPF polling loop) leads to the     *)
(* termination of all: the polling loop exits, the writer task finishes    *)
(* and main returns.                                                       *)
(***************************************************************************)
AnyTaskEnded == mon.pc = "done" \/ wr.pc = "done" \/ ~BpfLoopRuns
AllEnded == mon.pc = "done" /\ wr.pc = "done" /\ main_pc = "returned"

C27_AnyTerminationStopsAll == AnyTaskEnded ~> AllEnded

(***************************************************************************)
(* C28: the duration timeout is one-shot wall-clock: with --duration D > 0 *)
(* the timeout of the monitoring task is due D seconds after the task      *)
(* started (the clock starts at 0 with the task), however many SIGUSR1     *)
(* signals were handled meanwhile.                                         *)
(***************************************************************************)
C28_TimeoutDueAfterDuration ==
    (mon.pc = "select" /\ mon.duration > 0 /\ env.now >= mon.duration)
        => TimeoutElapsed


(***************************************************************************)
(* Properties of the boundary dispatch, checked under SpecDispatch         *)
(***************************************************************************)
\* a step that hands the completed timeslot to the completion callback
HandOffStep == lastMsg' # lastMsg /\ lastMsg'.type = "TIMESLOT"
\* a step that applies the queued removals
FlushStep ==
    \/ \E p \in DOMAIN task_collection.tasks : p \notin DOMAIN task_collection'.tasks
    \/ task_collection.pending # {} /\ task_collection'.pending = {}
\* a step that folds a PERF_MEASUREMENT into the running timeslot
FoldStep ==
    /\ current_timeslot'.timestamp = current_timeslot.timestamp
    /\ current_timeslot' # current_timeslot

(* C31: at a timeslot boundary the completed timeslot, with every fold of  *)
(* the timeslot in it, is handed to the completion callback strictly       *)
(* before the queued removals are flushed, and no PERF_MEASUREMENT is      *)
(* folded between the hand-off and the flush.  Entries leave the task      *)
(* table only in that flush, so a measurement folded into the timeslot     *)
(* for a pid that is in the table resolves to its metadata, also when the  *)
(* pid was freed during the timeslot.                                      *)
C31_SendThenFlush ==
    [][ /\ HandOffStep =>
            /\ dispatch = DispatchIdle
            /\ dispatch'.pc = "handed"
            /\ lastMsg'.completed = current_timeslot
            /\ task_collection' = task_collection
        /\ FlushStep =>
            /\ dispatch.pc = "handed"
            /\ dispatch' = DispatchIdle
            /\ current_timeslot' = current_timeslot
        /\ FoldStep =>
            /\ dispatch = DispatchIdle
            /\ dispatch' = DispatchIdle
            /\ task_collection' = task_collection
            /\ \A pid \in DOMAIN task_collection.tasks :
                 (pid \notin DOMAIN current_timeslot.entries
                  \/ current_timeslot'.entries[pid] # current_timeslot.entries[pid])
                 => (pid \in DOMAIN current_timeslot'.entries
                     => current_timeslot'.entries[pid].metadata
                          = task_collection.tasks[pid])
      ]_vars

\* the hand-off is done and the flush is still to come, for a timeslot that
\* holds a resolved measurement of a pid freed during it
C31_Witness ==
    /\ dispatch.pc = "handed"
    /\ lastMsg.type = "TIMESLOT"
    /\ \E pid \in task_collection.pending :
         /\ pid \in DOMAIN task_collection.tasks
         /\ pid \in DOMAIN lastMsg.completed.entries
         /\ lastMsg.completed.entries[pid].metadata = task_collection.tasks[pid]


(* C39: pid reuse across a deferred removal.  When a TASK_METADATA for a   *)
(* pid is processed while a removal of that pid is queued (the TASK_FREE   *)
(* of an earlier incarnation, in the same timeslot), the flush of the      *)
(* next boundary does not remove the metadata inserted after that removal  *)
(* was queued: lookup returns it after the boundary as before.             *)
C39_ReusedPidSurvivesFlush ==
    [][ ( /\ lastMsg.type = "TASK_METADATA"
          /\ lastMsg.pid \in task_collection.pending
          /\ lastMsg'.type = "TIMESLOT" )
        => /\ tc_lookup(task_collection', lastMsg.pid) # None
           /\ tc_lookup(task_collection', lastMsg.pid)
                = tc_lookup(task_collection, lastMsg.pid)
      ]_vars

(* C40: timeslot keying.  The completed timeslot that a TIMESLOT(old, new) *)
(* boundary hands to the writer carries old as its timestamp, for the      *)
(* first boundary after startup and for a boundary whose old differs from  *)
(* the new of the boundary before.                                         *)
C40_CompletedCarriesOld ==
    lastMsg.type = "TIMESLOT" => lastMsg.completed.timestamp = lastMsg.old


(***************************************************************************)
(* Properties of the plugin's critical sections, checked under Spec        *)
(***************************************************************************)
(* C32: mutex discipline.  No resctrl filesystem operation runs while the  *)
(* state mutex is held: a step that creates or deletes a group directory   *)
(* is not a critical section, so it reads and writes neither map and       *)
(* emits no event.                                                         *)
C32_NoFilesystemUnderMutex ==
    [][ groups' # groups =>
          /\ pods' = pods
          /\ containers' = containers
          /\ out' = NoOutput
      ]_vars


(* C33: a handle_new_container that found its pod Exists at the first lock *)
(* completes, whatever ran between its two critical sections, with the     *)
(* container tracked as Reconciled or Partial, the pod's total_containers  *)
(* raised by exactly 1, reconciled_containers raised by exactly 1 iff the  *)
(* state is Reconciled, and one AddOrUpdate carrying the new counts.       *)
C33_NewContainerCounted ==
    [][ \A c \in ContainerIds :
          LET u == PodOf(c) IN
          Leaves(HncTask(u, c)) =>
            /\ c \in DOMAIN containers'
            /\ containers'[c].state \in {"Reconciled", "Partial"}
            /\ u \in DOMAIN pods /\ u \in DOMAIN pods'
            /\ pods'[u].total_containers = pods[u].total_containers + 1
            /\ pods'[u].reconciled_containers =
                 pods[u].reconciled_containers
                   + (IF containers'[c].state = "Reconciled" THEN 1 ELSE 0)
            /\ out'.by = "handle_new_container"
            /\ out'.ev = emit_pod_add_or_update(u, pods'[u])
      ]_vars


(* C34: while a pod is Failed, a new container created for it is recorded  *)
(* as Partial in one critical section, with no reconcile started and no    *)
(* filesystem call, raises only total_containers and emits one AddOrUpdate *)
(* that carries Failed; the step that takes the pod from Failed to Exists  *)
(* is retry_group_creation's, which keeps the counts and emits them with   *)
(* Exists; and reconciled_containers of a Failed pod never rises, since    *)
(* only retry_container_reconcile raises it and it needs the group.        *)
C34_FailedPodContainers ==
    /\ [][ \A c \in ContainerIds :
             LET u == PodOf(c) IN
             ( /\ ~Known(c) /\ c \in DOMAIN containers'
               /\ ~InFlight(HncTask(u, c))
               /\ Tracked(u) /\ pods[u].group_state = Failed )
             => /\ containers'[c].state = "Partial"
                /\ inflight' = inflight
                /\ groups' = groups
                /\ pods' = [pods EXCEPT ![u].total_containers = @ + 1]
                /\ out'.by = "handle_new_container"
                /\ out'.ev = emit_pod_add_or_update(u, pods'[u])
                /\ out'.ev.group_state = Failed ]_vars
    /\ [][ \A u \in PodUids :
             ( /\ Tracked(u) /\ pods[u].group_state = Failed
               /\ u \in DOMAIN pods' /\ pods'[u].group_state # Failed )
             => /\ pods'[u].total_containers = pods[u].total_containers
                /\ pods'[u].reconciled_containers = pods[u].reconciled_containers
                /\ out'.by = "retry_group_creation"
                /\ out'.ev = emit_pod_add_or_update(u, pods'[u]) ]_vars
    /\ [][ \A u \in PodUids :
             ( /\ Tracked(u) /\ pods[u].group_state = Failed
               /\ u \in DOMAIN pods' )
             => pods'[u].reconciled_containers <= pods[u].reconciled_containers
         ]_vars


EntriesOf(u, S) ==
    {c \in DOMAIN containers : containers[c].pod_uid = u /\ containers[c].state \in S}

(* C36: counter/map consistency.  Whenever the mutex is free, each tracked *)
(* pod's total_containers is the number of container entries recorded      *)
(* under it whose state is not NoPod, and its reconciled_containers is the *)
(* number of those whose state is Reconciled.                              *)
C36_CountersMatchMap ==
    \A u \in DOMAIN pods :
        /\ pods[u].total_containers
             = Cardinality(EntriesOf(u, {"Partial", "Reconciled"}))
        /\ pods[u].reconciled_containers
             = Cardinality(EntriesOf(u, {"Reconciled"}))


(* C37: group existence.  When no plugin operation is in flight, every     *)
(* tracked pod whose group_state is Exists(path) has its group directory   *)
(* at path, only the plugin changing the resctrl tree.                     *)
C37_ExistsHasDirectory ==
    BagCardinality(inflight) = 0 =>
        \A u \in DOMAIN pods :
            pods[u].group_state # Failed => pods[u].group_state.path \in groups


(***************************************************************************)
(* Properties of the container removals, checked under SpecStale           *)
(***************************************************************************)
(* C38: no stale container after removal.  Once REMOVE_CONTAINER for a     *)
(* container id has returned and no create_container for it has been       *)
(* issued since, the id is not in the containers map when no operation is  *)
(* in flight any more.                                                     *)
C38_NoStaleAfterRemove ==
    BagCardinality(inflight) = 0 =>
        \A c \in removed : c \notin DOMAIN containers

============================================================================
